---- MODULE Spec2Model ----
(***************************************************************************)
(* Orchestration engine of the datasets server: the processing graph, the *)
(* cache of step outputs, the job queue, the backfill planner            *)
(* (libcommon/state.py), the job runner of the worker                     *)
(* (worker/job_runner.py) and the API read path (libapi/utils.py).        *)
(*                                                                         *)
(* libcommon/queue.py, libcommon/simple_cache.py,                          *)
(* libcommon/processing_graph.py, libcommon/orchestrator.py and            *)
(* libcommon/operations.py are not part of the source tree at hand: the   *)
(* operators that stand for them follow the written specification and are *)
(* marked "specification" in their comments.                              *)
(***************************************************************************)
EXTENDS Integers, Sequences, FiniteSets, TLC

----------------------------------------------------------------------------
(* Bounds of the model *)

\* number of job records the queue collection can hold in the model
MaxJobs == 4
\* highest hub revision (revisions are numbered in commit order)
MaxRev == 2
\* reclaims of one job before it is given up as crashed
MaxRetries == 1

\* jobs the reclaimer takes back in a run
MaxReclaims == 1

\* length of the lists of kinds given to get_best_response
MaxKinds == 2

----------------------------------------------------------------------------
(* Universe *)

Datasets == {"a/x"}
Configs == {"c", "d"}
Splits == {"s", "t"}
Workers == {"w1", "w2"}

\* absent config / split (Python None)
None == "None"

\* the user or organization prefix of a dataset name
Namespace(dataset) ==
    CASE dataset = "a/x" -> "a"
      [] dataset = "a/y" -> "a"
      [] OTHER -> "b"

\* WORKER_MAX_JOBS_PER_NAMESPACE, passed to the Queue by the worker's main
max_jobs_per_namespace == 1

\* encodings of Python None for integer fields
NoRevision == 0
NoVersion == -1
NoProgress == -1
\* progress of a complete response (1.0), in percent
COMPLETE == 100
\* progress of a fan-in response still waiting for inputs, in percent
PARTIAL == 50

\* hub answers for a dataset: missing or private, no sha, or a revision number
HubNotFound == -1

HTTP_OK == 200
HTTP_BAD_REQUEST == 400
HTTP_NOT_FOUND == 404
HTTP_INTERNAL_SERVER_ERROR == 500
HTTP_NOT_IMPLEMENTED == 501

----------------------------------------------------------------------------
(* Processing graph *)

CN == "dataset-config-names"
SNS == "config-split-names-from-streaming"
SNI == "config-split-names-from-info"
FR == "split-first-rows-from-streaming"
DSN == "dataset-split-names"

\* the steps of ProcessingGraphConfig.specification kept in the model, in
\* the order of the specification (the induced subgraph on these steps)
StepOrder == <<CN, SNS, FR, SNI, DSN>>
Steps == {StepOrder[i] : i \in 1..Len(StepOrder)}

\* ProcessingGraphConfig.specification: input_type, triggered_by, version
specification ==
    [step \in Steps |->
       CASE step = CN  -> [input_type |-> "dataset", triggered_by |-> <<>>,
                           job_runner_version |-> 1]
         [] step = SNS -> [input_type |-> "config", triggered_by |-> <<CN>>,
                           job_runner_version |-> 3]
         [] step = FR  -> [input_type |-> "split", triggered_by |-> <<SNS, SNI>>,
                           job_runner_version |-> 3]
         [] step = SNI -> [input_type |-> "config", triggered_by |-> <<>>,
                           job_runner_version |-> 3]
         [] step = DSN -> [input_type |-> "dataset", triggered_by |-> <<SNI, SNS, CN>>,
                           job_runner_version |-> 2]]

SeqRange(seq) == {seq[i] : i \in 1..Len(seq)}

\* ProcessingGraph.get_children (specification: successors(step))
get_children(step) ==
    {child \in Steps : step \in SeqRange(specification[child].triggered_by)}

\* ProcessingGraph: steps whose input scope is the given one, in graph order
StepsOfInputType(input_type) ==
    SelectSeq(StepOrder, LAMBDA step : specification[step].input_type = input_type)

HARD_CODED_CONFIG_NAMES_CACHE_KIND == CN
HARD_CODED_SPLIT_NAMES_FROM_STREAMING_CACHE_KIND == SNS
HARD_CODED_SPLIT_NAMES_FROM_DATASET_INFO_CACHE_KIND == SNI

----------------------------------------------------------------------------
(* Keys *)

Key(kind, dataset, config, split) ==
    [kind |-> kind, dataset |-> dataset, config |-> config, split |-> split]

\* the (dataset, config, split) a step of the given input type can take
InputsOf(input_type) ==
    CASE input_type = "dataset" ->
           {<<d, None, None>> : d \in Datasets}
      [] input_type = "config" ->
           {<<d, c, None>> : d \in Datasets, c \in Configs}
      [] OTHER ->
           {<<d, c, s>> : d \in Datasets, c \in Configs, s \in Splits}

Keys ==
    UNION {{Key(step, i[1], i[2], i[3]) : i \in InputsOf(specification[step].input_type)}
           : step \in Steps}

----------------------------------------------------------------------------
(* State *)

VARIABLES
    hub,      \* hub[dataset]: HubNotFound, NoRevision or the current revision
    cache,    \* cache[key]: the cached response of the key, or NoEntry
    jobs,     \* the job collection, in creation order; a job's id is its index
    pc,       \* pc[w]: where worker w is in its loop
    job,      \* job[w]: the job_info of the runner of worker w (NoJob: none)
    rev,      \* rev[w]: JobRunner._dataset_git_revision of w's runner
    err,      \* err[w]: code of the exception process() caught ("None": none)
    result,   \* result[w]: the Status returned by JobRunner.run
    reclaims, \* number of jobs the reclaimer has taken back so far
    out       \* what the function applied last was given and returned

vars == <<hub, cache, jobs, pc, job, rev, err, result, reclaims, out>>

NoEntry == [http_status |-> 0]

WAITING == "WAITING"
STARTED == "STARTED"
SUCCESS == "SUCCESS"
ERROR == "ERROR"
SKIPPED == "SKIPPED"

LOW == "LOW"
NORMAL == "NORMAL"
HIGH == "HIGH"

\* Priority ordering: HIGH > NORMAL > LOW
PriorityRank(priority) ==
    CASE priority = HIGH -> 2
      [] priority = NORMAL -> 1
      [] OTHER -> 0

\* jobs[j] is the document of the job with id j: ids follow the creation
JobIds == 1..Len(jobs)

\* the key of a job document, or of the job_info a runner holds
JobKey(j) == Key(j.type, j.dataset, j.config, j.split)

InFlight(j) == j.status \in {WAITING, STARTED}

\* Job.info(): what the JobRunner is built with. The runner's dataset and
\* job_params are those of the job_info, as the class documents them
\* (JobRunner.__init__ leaves them to the job operator)
JobInfo(j) ==
    [job_id |-> j.job_id, type |-> j.type, dataset |-> j.dataset,
     config |-> j.config, split |-> j.split, force |-> j.force,
     priority |-> j.priority]

\* the job_info of a worker that holds no job
NoJob ==
    [job_id |-> 0, type |-> None, dataset |-> None, config |-> None,
     split |-> None, force |-> FALSE, priority |-> LOW]

----------------------------------------------------------------------------
(* Queue store (specification 4.3) *)

\* Queue.is_job_in_process: a WAITING or STARTED job exists for the key
is_job_in_process(job_type, dataset, config, split) ==
    \E j \in JobIds :
        /\ JobKey(jobs[j]) = Key(job_type, dataset, config, split)
        /\ InFlight(jobs[j])

\* a document inserted as if it were leased already
NewJobStarted(q, job_type, dataset, config, split, force, priority) ==
    [job_id |-> Len(q) + 1, type |-> job_type, dataset |-> dataset,
     config |-> config, split |-> split, force |-> force, priority |-> priority,
     status |-> STARTED, owner |-> None, retries |-> 0]

\* the document Queue.upsert_job inserts
NewJob(q, job_type, dataset, config, split, force, priority) ==
    [job_id |-> Len(q) + 1, type |-> job_type, dataset |-> dataset,
     config |-> config, split |-> split, force |-> force, priority |-> priority,
     status |-> WAITING, owner |-> None, retries |-> 0]

\* a queue that adds a job even when one is in flight for the key
add_job(q, job_type, dataset, config, split, force, priority) ==
    Append(q, NewJob(q, job_type, dataset, config, split, force, priority))

\* variant: an upsert on a key in flight gives the job the new priority
upsert_job_new_priority(q, job_type, dataset, config, split, force, priority) ==
    IF \E j \in 1..Len(q) :
          /\ JobKey(q[j]) = Key(job_type, dataset, config, split)
          /\ InFlight(q[j])
    THEN [j \in 1..Len(q) |->
             IF JobKey(q[j]) = Key(job_type, dataset, config, split) /\ InFlight(q[j])
             THEN [q[j] EXCEPT !.priority = priority]
             ELSE q[j]]
    ELSE Append(q, NewJob(q, job_type, dataset, config, split, force, priority))

\* Queue.upsert_job on the job collection q: no-op if a WAITING or STARTED job
\* exists for the same key, else inserts a WAITING job
upsert_job(q, job_type, dataset, config, split, force, priority) ==
    IF \E j \in 1..Len(q) :
          /\ JobKey(q[j]) = Key(job_type, dataset, config, split)
          /\ InFlight(q[j])
    THEN q
    ELSE Append(q, NewJob(q, job_type, dataset, config, split, force, priority))

\* number of STARTED jobs of the namespace
StartedInNamespace(namespace) ==
    Cardinality({j \in JobIds :
        jobs[j].status = STARTED /\ Namespace(jobs[j].dataset) = namespace})

\* like Startable, without the ceiling per namespace
StartableNoCeiling(j) ==
    jobs[j].status = WAITING

\* a WAITING job whose namespace is below the ceiling
Startable(j) ==
    /\ jobs[j].status = WAITING
    /\ StartedInNamespace(Namespace(jobs[j].dataset)) < max_jobs_per_namespace

\* Queue.start_job: the job leased next: highest priority, then oldest
\* (the collection is in created_at order, so no two candidates tie)
NextJob ==
    CHOOSE j \in JobIds :
        /\ Startable(j)
        /\ \A k \in JobIds : Startable(k) =>
              \/ PriorityRank(jobs[j].priority) > PriorityRank(jobs[k].priority)
              \/ /\ PriorityRank(jobs[j].priority) = PriorityRank(jobs[k].priority)
                 /\ j <= k

\* what is left of a document the TTL index has deleted
Expired ==
    [job_id |-> 0, type |-> None, dataset |-> None, config |-> None,
     split |-> None, force |-> FALSE, priority |-> LOW, status |-> "EXPIRED",
     owner |-> None, retries |-> 0]

\* the TTL index on finished_at (QUEUE_TTL_SECONDS): by the time a job
\* finishes, the jobs finished before it have been deleted from the collection
Expire(q, job_id) ==
    [j \in 1..Len(q) |-> IF InFlight(q[j]) \/ j = job_id THEN q[j] ELSE Expired]

\* the worker holds the lease of the job in q
HoldsLease(q, job_id, worker) ==
    /\ q[job_id].status = STARTED
    /\ q[job_id].owner = worker

\* finish that does not look at the owner of the lease
finish_job_any_owner(q, job_id, worker, finished_status) ==
    IF q[job_id].status = STARTED
    THEN [q EXCEPT ![job_id].status = finished_status]
    ELSE q

\* Queue.finish_job: STARTED -> final status, only for the owner of the lease
finish_job(q, job_id, worker, finished_status) ==
    IF HoldsLease(q, job_id, worker)
    THEN [q EXCEPT ![job_id].status = finished_status]
    ELSE q

----------------------------------------------------------------------------
(* Cache store (specification 4.2) *)

CACHED_RESPONSE_NOT_FOUND == "CachedResponseNotFound"

ConfigNamesContent(configs) == [tag |-> "config_names", names |-> configs]
SplitNamesContent(splits) == [tag |-> "split_names", names |-> splits]
OtherContent == [tag |-> "content", names |-> {}]
\* CustomError.as_response(): {"error": message}
ErrorContent == [tag |-> "error", names |-> {}]

Entry(content, http_status, error_code, job_runner_version, dataset_git_revision, progress) ==
    [content |-> content, http_status |-> http_status, error_code |-> error_code,
     job_runner_version |-> job_runner_version,
     dataset_git_revision |-> dataset_git_revision, progress |-> progress]

\* simple_cache.upsert_response on the cache c: replaces the entry of the key,
\* unless the entry in place has the same revision and a newer version
upsert_response(c, key, entry) ==
    IF /\ c[key] # NoEntry
       /\ c[key].dataset_git_revision = entry.dataset_git_revision
       /\ entry.job_runner_version < c[key].job_runner_version
    THEN c
    ELSE [c EXCEPT ![key] = entry]

\* simple_cache.get_response_without_content: NoEntry stands for DoesNotExist
get_response_without_content(kind, dataset, config, split) ==
    cache[Key(kind, dataset, config, split)]

\* the synthetic header returned by get_best_response when nothing is cached
NotFoundResponse ==
    [content |-> ErrorContent, http_status |-> HTTP_NOT_FOUND,
     error_code |-> CACHED_RESPONSE_NOT_FOUND, job_runner_version |-> NoVersion,
     dataset_git_revision |-> NoRevision, progress |-> NoProgress]

BestResponse(kind, response) == [kind |-> kind, response |-> response]

\* the scan of get_best_response from position i of kinds on the cache c;
\* fallback is the best candidate seen so far
RECURSIVE BestScan(_, _, _, _, _, _, _)
BestScan(c, kinds, i, fallback, dataset, config, split) ==
    IF i > Len(kinds)
    THEN fallback
    ELSE LET entry == c[Key(kinds[i], dataset, config, split)]
         IN  IF entry = NoEntry
             THEN BestScan(c, kinds, i + 1, fallback, dataset, config, split)
             ELSE IF entry.http_status = HTTP_OK
                  THEN BestResponse(kinds[i], entry)
                  ELSE BestScan(c, kinds, i + 1, BestResponse(kinds[i], entry),
                                dataset, config, split)

\* a scan that keeps the first entry it meets, success or error
RECURSIVE FirstScan(_, _, _, _, _, _)
FirstScan(c, kinds, i, dataset, config, split) ==
    IF i > Len(kinds)
    THEN BestResponse(kinds[1], NotFoundResponse)
    ELSE LET entry == c[Key(kinds[i], dataset, config, split)]
         IN  IF entry = NoEntry
             THEN FirstScan(c, kinds, i + 1, dataset, config, split)
             ELSE BestResponse(kinds[i], entry)

get_best_response_first_entry(c, kinds, dataset, config, split) ==
    FirstScan(c, kinds, 1, dataset, config, split)

\* simple_cache.get_best_response on the cache c: the first kind of the list
\* with a successful entry; else the last kind with an entry; else not found
get_best_response(c, kinds, dataset, config, split) ==
    BestScan(c, kinds, 1, BestResponse(kinds[1], NotFoundResponse),
             dataset, config, split)

----------------------------------------------------------------------------
(* Dataset state and backfill planner (libcommon/state.py) *)

\* order in which names are listed in a cached content
ConfigOrder == <<"c", "d">>
SplitOrder == <<"s", "t">>

RECURSIVE ConcatAll(_)
ConcatAll(seqs) ==
    IF seqs = <<>> THEN <<>> ELSE Head(seqs) \o ConcatAll(Tail(seqs))

\* fetch_config_names: the configs listed in the cached config names;
\* raised: the lookup or the parsing of the content raised
fetch_config_names(dataset) ==
    LET response == cache[Key(HARD_CODED_CONFIG_NAMES_CACHE_KIND, dataset, None, None)]
    IN  IF response = NoEntry \/ response.content.tag # "config_names"
        THEN [raised |-> TRUE, names |-> <<>>]
        ELSE [raised |-> FALSE,
              names |-> SelectSeq(ConfigOrder, LAMBDA n : n \in response.content.names)]

\* fetch_split_names: the splits listed in the best split names response
fetch_split_names(dataset, config) ==
    LET best_response ==
            get_best_response(cache,
                <<HARD_CODED_SPLIT_NAMES_FROM_DATASET_INFO_CACHE_KIND,
                  HARD_CODED_SPLIT_NAMES_FROM_STREAMING_CACHE_KIND>>,
                dataset, config, None)
    IN  IF best_response.response.content.tag # "split_names"
        THEN [raised |-> TRUE, names |-> <<>>]
        ELSE [raised |-> FALSE,
              names |-> SelectSeq(SplitOrder,
                                  LAMBDA n : n \in best_response.response.content.names)]

\* ERROR_CODES_TO_RETRY of libcommon/state.py
STATE_ERROR_CODES_TO_RETRY == {}

\* CacheState.should_be_refreshed
should_be_refreshed(kind, dataset, config, split) ==
    LET cache_entry_without_content ==
            get_response_without_content(kind, dataset, config, split)
        empty == cache_entry_without_content = NoEntry
        error_to_retry ==
            /\ cache_entry_without_content # NoEntry
            /\ cache_entry_without_content.http_status >= HTTP_BAD_REQUEST
            /\ cache_entry_without_content.error_code \in STATE_ERROR_CODES_TO_RETRY
    IN  empty \/ error_to_retry

\* get_backfill_tasks of a step state that does not look at the job state
StepState_get_backfill_tasks_ignoring_jobs(step, dataset, config, split) ==
    IF should_be_refreshed(step, dataset, config, split)
    THEN <<Key(step, dataset, config, split)>>
    ELSE <<>>

\* StepState.get_backfill_tasks
StepState_get_backfill_tasks(step, dataset, config, split) ==
    IF /\ should_be_refreshed(step, dataset, config, split)
       /\ ~is_job_in_process(step, dataset, config, split)
    THEN <<Key(step, dataset, config, split)>>
    ELSE <<>>

\* SplitState.get_backfill_tasks
SplitState_get_backfill_tasks(dataset, config, split) ==
    LET steps == StepsOfInputType("split")
    IN  ConcatAll([i \in 1..Len(steps) |->
            StepState_get_backfill_tasks(steps[i], dataset, config, split)])

\* variant: the tasks of the splits before the tasks of the config
ConfigState_get_backfill_tasks_splits_first(dataset, config) ==
    LET steps == StepsOfInputType("config")
        fetched == fetch_split_names(dataset, config)
        split_names == IF fetched.raised THEN <<>> ELSE fetched.names
    IN  ConcatAll([i \in 1..Len(split_names) |->
            SplitState_get_backfill_tasks(dataset, config, split_names[i])])
        \o ConcatAll([i \in 1..Len(steps) |->
            StepState_get_backfill_tasks(steps[i], dataset, config, None)])

\* ConfigState.get_backfill_tasks
ConfigState_get_backfill_tasks(dataset, config) ==
    LET steps == StepsOfInputType("config")
        fetched == fetch_split_names(dataset, config)
        split_names == IF fetched.raised THEN <<>> ELSE fetched.names
    IN  ConcatAll([i \in 1..Len(steps) |->
            StepState_get_backfill_tasks(steps[i], dataset, config, None)])
        \o ConcatAll([i \in 1..Len(split_names) |->
            SplitState_get_backfill_tasks(dataset, config, split_names[i])])

\* DatasetState.get_backfill_tasks
DatasetState_get_backfill_tasks(dataset) ==
    LET steps == StepsOfInputType("dataset")
        fetched == fetch_config_names(dataset)
        config_names == IF fetched.raised THEN <<>> ELSE fetched.names
    IN  ConcatAll([i \in 1..Len(steps) |->
            StepState_get_backfill_tasks(steps[i], dataset, None, None)])
        \o ConcatAll([i \in 1..Len(config_names) |->
            ConfigState_get_backfill_tasks(dataset, config_names[i])])

\* BackfillTask.run
BackfillTask_run(q, task, force, priority) ==
    upsert_job(q, task.kind, task.dataset, task.config, task.split, force, priority)

\* "for backfill_tasks in self.get_backfill_tasks(): backfill_tasks.run(...)"
RECURSIVE RunTasks(_, _, _, _)
RunTasks(q, tasks, force, priority) ==
    IF tasks = <<>>
    THEN q
    ELSE RunTasks(BackfillTask_run(q, Head(tasks), force, priority),
                  Tail(tasks), force, priority)

----------------------------------------------------------------------------
(* Job runner (worker/job_runner.py) *)

\* List of error codes that should trigger a retry.
ERROR_CODES_TO_RETRY == {"ClientConnectionError"}

\* workers still deployed with the previous release of the steps
OldWorkers == {"w2"}

\* JobOperator.get_job_runner_version of the release worker w runs
get_job_runner_version(w, step) ==
    IF w \in OldWorkers
    THEN specification[step].job_runner_version - 1
    ELSE specification[step].job_runner_version

\* the call to the hub could not be made
HubError == -2

Raised(answer) == answer \in {HubNotFound, HubError}

\* JobRunner.get_dataset_git_revision: the memoized revision if any, else
\* what the hub answers: the current revision, no sha (NoRevision), or
\* DatasetNotFoundError (HubNotFound)
get_dataset_git_revision(memo, dataset) ==
    IF memo # NoRevision
    THEN memo
    ELSE hub[dataset]

\* the revision is memoized when get_dataset_git_revision returns it
Memo(memo, answer) ==
    IF Raised(answer) THEN memo ELSE answer

\* JobRunner.should_skip_job; cached_response is the entry of the job's key,
\* answer what get_dataset_git_revision gives if the function gets to call it
should_skip_job(force, cached_response, runner_version, answer) ==
    IF force THEN FALSE
    ELSE IF cached_response = NoEntry THEN FALSE
    ELSE IF cached_response.error_code \in ERROR_CODES_TO_RETRY THEN FALSE
    ELSE IF \/ cached_response.job_runner_version = NoVersion
            \/ runner_version > cached_response.job_runner_version
         THEN FALSE
    ELSE IF /\ cached_response.progress # NoProgress
            /\ cached_response.progress < COMPLETE
         THEN FALSE
    ELSE IF Raised(answer) THEN FALSE
    ELSE answer # NoRevision /\ cached_response.dataset_git_revision = answer

\* should_skip_job gets to call get_dataset_git_revision
SkipAsksRevision(force, cached_response, runner_version) ==
    /\ ~force
    /\ cached_response # NoEntry
    /\ cached_response.error_code \notin ERROR_CODES_TO_RETRY
    /\ cached_response.job_runner_version # NoVersion
    /\ runner_version <= cached_response.job_runner_version
    /\ ~(cached_response.progress # NoProgress /\ cached_response.progress < COMPLETE)

\* what the compute of a step can end with: a result, or an exception
ComputeOutcomes ==
    {"ok", "DatasetNotFoundError", "ClientConnectionError"}

\* the splits and configs the computations find on the hub
HubConfigs(dataset) == {"c"}
HubSplits(dataset, config) == {"s"}

\* content and progress of JobOperator.compute for the key
ComputedContent(key) ==
    CASE key.kind = CN -> ConfigNamesContent(HubConfigs(key.dataset))
      [] key.kind \in {SNS, SNI} -> SplitNamesContent(HubSplits(key.dataset, key.config))
      [] OTHER -> OtherContent

\* the fan-in step is complete once both split names of a config are cached
ComputedProgress(c, key) ==
    IF key.kind = DSN
       /\ \E config \in HubConfigs(key.dataset) :
             \E kind \in {SNS, SNI} : c[Key(kind, key.dataset, config, None)] = NoEntry
    THEN PARTIAL
    ELSE COMPLETE

\* status code of the exception with the given code
status_code(code) ==
    CASE code = "NoGitRevisionError" -> HTTP_NOT_FOUND
      [] code = "TooBigContentError" -> HTTP_NOT_IMPLEMENTED
      [] code = "JobRunnerCrashedError" -> HTTP_NOT_IMPLEMENTED
      [] OTHER -> HTTP_INTERNAL_SERVER_ERROR

\* the "except Exception" branch of process: the error is stored
ProcessError(c, key, code, version, revision) ==
    upsert_response(c, key,
        Entry(ErrorContent, status_code(code), code, version, revision, NoProgress))

\* JobOperator.get_parallel_operator: only split names from dataset info
\* declares one
get_parallel_operator(kind) ==
    IF kind = SNI
    THEN [job_type |-> SNS, job_operator_version |-> specification[SNS].job_runner_version]
    ELSE [job_type |-> None, job_operator_version |-> NoVersion]

\* variant: the version of the parallel entry is not looked at
raise_if_parallel_response_exists_any_version(c, key, revision) ==
    LET parallel == get_parallel_operator(key.kind)
        existing_response ==
            IF parallel.job_type = None
            THEN NoEntry
            ELSE c[Key(parallel.job_type, key.dataset, key.config, key.split)]
    IN  /\ existing_response # NoEntry
        /\ existing_response.http_status = HTTP_OK
        /\ existing_response.progress = COMPLETE
        /\ existing_response.dataset_git_revision = revision

\* JobRunner.raise_if_parallel_response_exists: TRUE when it raises
\* ResponseAlreadyComputedError
raise_if_parallel_response_exists(c, key, revision) ==
    LET parallel == get_parallel_operator(key.kind)
        existing_response ==
            IF parallel.job_type = None
            THEN NoEntry
            ELSE c[Key(parallel.job_type, key.dataset, key.config, key.split)]
    IN  /\ existing_response # NoEntry
        /\ existing_response.http_status = HTTP_OK
        /\ existing_response.job_runner_version = parallel.job_operator_version
        /\ existing_response.progress = COMPLETE
        /\ existing_response.dataset_git_revision = revision

\* a process that stores DatasetNotFoundError like any other error
process_outcome_caching_not_found(c, key, outcome, version, revision) ==
    IF raise_if_parallel_response_exists(c, key, revision)
    THEN [cache |-> ProcessError(c, key, "ResponseAlreadyComputedError", version, revision),
          returns |-> FALSE, err |-> "ResponseAlreadyComputedError",
          computed |-> FALSE, post_compute |-> 1]
    ELSE IF outcome = "ok"
    THEN [cache |-> upsert_response(c, key,
                        Entry(ComputedContent(key), HTTP_OK, None, version, revision,
                              ComputedProgress(c, key))),
          returns |-> TRUE, err |-> None, computed |-> TRUE, post_compute |-> 1]
    ELSE [cache |-> ProcessError(c, key, outcome, version, revision),
          returns |-> FALSE, err |-> outcome, computed |-> TRUE, post_compute |-> 1]

\* JobRunner.process once the revision is known: what it does to the cache c
\* and what it returns, for each outcome of the compute and the size check;
\* computed: compute was called; post_compute: the calls of post_compute
process_outcome(c, key, outcome, version, revision) ==
    IF raise_if_parallel_response_exists(c, key, revision)
    THEN [cache |-> ProcessError(c, key, "ResponseAlreadyComputedError", version, revision),
          returns |-> FALSE, err |-> "ResponseAlreadyComputedError",
          computed |-> FALSE, post_compute |-> 1]
    ELSE IF outcome = "ok"
    THEN [cache |-> upsert_response(c, key,
                        Entry(ComputedContent(key), HTTP_OK, None, version, revision,
                              ComputedProgress(c, key))),
          returns |-> TRUE, err |-> None, computed |-> TRUE, post_compute |-> 1]
    ELSE IF outcome = "DatasetNotFoundError"
    THEN [cache |-> c, returns |-> FALSE, err |-> outcome,
          computed |-> TRUE, post_compute |-> 1]
    ELSE [cache |-> ProcessError(c, key, outcome, version, revision),
          returns |-> FALSE, err |-> outcome, computed |-> TRUE, post_compute |-> 1]

\* JobRunner.process up to the revision: answer is what
\* get_dataset_git_revision gives; go_on: the revision is known, the inner
\* try block (pre_compute .. finally post_compute) is entered
process_revision(c, key, answer, version) ==
    IF answer = HubNotFound
    THEN [cache |-> c, returns |-> FALSE, err |-> "DatasetNotFoundError", go_on |-> FALSE,
          computed |-> FALSE, post_compute |-> 0]
    ELSE IF answer = HubError
    THEN [cache |-> ProcessError(c, key, "UnexpectedError", version, NoRevision),
          returns |-> FALSE, err |-> "UnexpectedError", go_on |-> FALSE,
          computed |-> FALSE, post_compute |-> 0]
    ELSE IF answer = NoRevision
    THEN [cache |-> ProcessError(c, key, "NoGitRevisionError", version, NoRevision),
          returns |-> FALSE, err |-> "NoGitRevisionError", go_on |-> FALSE,
          computed |-> FALSE, post_compute |-> 0]
    ELSE [cache |-> c, returns |-> TRUE, err |-> None, go_on |-> TRUE,
          computed |-> FALSE, post_compute |-> 0]

\* variant: process reports success whenever the compute was reached
process_reporting_success(c, key, answer, outcome, version) ==
    LET r == process_revision(c, key, answer, version)
        p == process_outcome(c, key, outcome, version, answer)
    IN  IF r.go_on
        THEN [p EXCEPT !.returns = p.computed]
        ELSE [cache |-> r.cache, returns |-> r.returns, err |-> r.err,
              computed |-> r.computed, post_compute |-> r.post_compute]

\* JobRunner.process as a whole
process(c, key, answer, outcome, version) ==
    LET r == process_revision(c, key, answer, version)
    IN  IF r.go_on
        THEN process_outcome(c, key, outcome, version, answer)
        ELSE [cache |-> r.cache, returns |-> r.returns, err |-> r.err,
              computed |-> r.computed, post_compute |-> r.post_compute]

\* JobRunner.get_new_splits: "Can be empty": the runner's own method
get_new_splits(content) == {}

\* SplitNamesFromDatasetInfoJobOperator.get_new_splits: the splits of content
Operator_get_new_splits(dataset, config, content) ==
    IF content.tag = "split_names"
    THEN {<<dataset, config, split>> : split \in content.names}
    ELSE {}

\* variant: only a successful entry is fanned out
ChildrenNames_on_success(key, response_in_cache, child_input_type) ==
    IF response_in_cache.http_status = HTTP_OK
    THEN IF child_input_type = "dataset" THEN {<<key.dataset, None, None>>} ELSE {}
    ELSE {}

\* the names create_children_jobs enqueues for a child of the given input type
ChildrenNames(key, response_in_cache, child_input_type) ==
    LET input_type == specification[key.kind].input_type
        new_split_full_names_for_split ==
            IF response_in_cache.http_status = HTTP_OK
            THEN get_new_splits(response_in_cache.content)
            ELSE IF input_type = "split"
                 THEN {<<key.dataset, key.config, key.split>>}
                 ELSE {}
        new_split_full_names_for_config ==
            IF response_in_cache.http_status = HTTP_OK
            THEN {<<n[1], n[2], None>> : n \in new_split_full_names_for_split}
            ELSE IF input_type \in {"split", "config"}
                 THEN {<<key.dataset, key.config, None>>}
                 ELSE {}
        new_split_full_names_for_dataset == {<<key.dataset, None, None>>}
    IN  CASE child_input_type = "split" -> new_split_full_names_for_split
          [] child_input_type = "config" -> new_split_full_names_for_config
          [] OTHER -> new_split_full_names_for_dataset

\* the jobs create_children_jobs upserts, children in graph order
ChildrenTasks(key, response_in_cache) ==
    LET children == SelectSeq(StepOrder, LAMBDA step : step \in get_children(key.kind))
        \* each set of names holds one name at most
        NamesSeq(child) ==
            LET names == ChildrenNames(key, response_in_cache,
                                       specification[child].input_type)
            IN  IF names = {} THEN <<>>
                ELSE LET n == CHOOSE x \in names : TRUE
                     IN  <<Key(child, n[1], n[2], n[3])>>
    IN  ConcatAll([i \in 1..Len(children) |-> NamesSeq(children[i])])

RECURSIVE UpsertAll(_, _, _, _)
UpsertAll(q, tasks, force, priority) ==
    IF tasks = <<>>
    THEN q
    ELSE UpsertAll(upsert_job(q, Head(tasks).kind, Head(tasks).dataset,
                              Head(tasks).config, Head(tasks).split, force, priority),
                   Tail(tasks), force, priority)

\* variant: the children are queued without the force flag
create_children_jobs_unforced(q, key, force, priority) ==
    IF get_children(key.kind) = {} \/ cache[key] = NoEntry
    THEN q
    ELSE UpsertAll(q, ChildrenTasks(key, cache[key]), FALSE, priority)

\* variant: the children are queued at the planner's priority
create_children_jobs_low(q, key, force, priority) ==
    IF get_children(key.kind) = {} \/ cache[key] = NoEntry
    THEN q
    ELSE UpsertAll(q, ChildrenTasks(key, cache[key]), force, LOW)

\* JobRunner.create_children_jobs on the job collection q
create_children_jobs(q, key, force, priority) ==
    IF get_children(key.kind) = {} \/ cache[key] = NoEntry
    THEN q
    ELSE UpsertAll(q, ChildrenTasks(key, cache[key]), force, priority)

----------------------------------------------------------------------------
(* API read path (libapi/utils.py) and orchestrator *)

\* is_supported: the dataset exists on the hub and is public
is_supported(dataset) == hub[dataset] # HubNotFound

\* DatasetOrchestrator.has_some_cache (specification)
has_some_cache(dataset) ==
    \E key \in Keys : key.dataset = dataset /\ cache[key] # NoEntry

RECURSIVE Ancestors(_)
Ancestors(step) ==
    LET parents == SeqRange(specification[step].triggered_by)
    IN  parents \cup UNION {Ancestors(parent) : parent \in parents}

\* variant: only the jobs of the requested steps count
has_pending_ancestor_jobs_own_steps(dataset, processing_step_names) ==
    \E j \in JobIds :
        /\ jobs[j].dataset = dataset
        /\ InFlight(jobs[j])
        /\ jobs[j].type \in SeqRange(processing_step_names)

\* DatasetOrchestrator.has_pending_ancestor_jobs (specification)
has_pending_ancestor_jobs(dataset, processing_step_names) ==
    \E j \in JobIds :
        /\ jobs[j].dataset = dataset
        /\ InFlight(jobs[j])
        /\ \E name \in SeqRange(processing_step_names) :
              jobs[j].type \in {name} \cup Ancestors(name)

\* planBackfill (specification 4.5): upserts every backfill task of the
\* dataset state with the given priority
planBackfill(q, dataset, force, priority) ==
    RunTasks(q, DatasetState_get_backfill_tasks(dataset), force, priority)

\* variant: the planner runs without asking the hub
check_support_and_act_unchecked(q, dataset, priority) ==
    [supported |-> TRUE, jobs |-> planBackfill(q, dataset, FALSE, priority)]

\* check_support_and_act (specification 4.5, onApiRead)
check_support_and_act(q, dataset, priority) ==
    IF is_supported(dataset)
    THEN [supported |-> TRUE, jobs |-> planBackfill(q, dataset, FALSE, priority)]
    ELSE [supported |-> FALSE, jobs |-> q]

\* a backfill on read that queues at the planner's priority
try_backfill_dataset_then_raise_low(q, processing_step_names, dataset) ==
    IF ~has_some_cache(dataset)
    THEN LET acted == check_support_and_act(q, dataset, LOW)
         IN  IF acted.supported
             THEN [raises |-> "ResponseNotReady", jobs |-> acted.jobs,
                   support_checked |-> TRUE]
             ELSE [raises |-> "ResponseNotFound", jobs |-> acted.jobs,
                   support_checked |-> TRUE]
    ELSE IF has_pending_ancestor_jobs(dataset, processing_step_names)
         THEN [raises |-> "ResponseNotReady", jobs |-> q, support_checked |-> FALSE]
         ELSE [raises |-> "ResponseNotFound", jobs |-> q, support_checked |-> FALSE]

\* try_backfill_dataset_then_raise: the error raised, the job collection, and
\* whether check_support_and_act was called
try_backfill_dataset_then_raise(q, processing_step_names, dataset) ==
    IF ~has_some_cache(dataset)
    THEN LET acted == check_support_and_act(q, dataset, NORMAL)
         IN  IF acted.supported
             THEN [raises |-> "ResponseNotReady", jobs |-> acted.jobs,
                   support_checked |-> TRUE]
             ELSE [raises |-> "ResponseNotFound", jobs |-> acted.jobs,
                   support_checked |-> TRUE]
    ELSE IF has_pending_ancestor_jobs(dataset, processing_step_names)
         THEN [raises |-> "ResponseNotReady", jobs |-> q, support_checked |-> FALSE]
         ELSE [raises |-> "ResponseNotFound", jobs |-> q, support_checked |-> FALSE]

\* variant: a cached error is treated as no entry
get_cache_entry_from_steps_success_only(q, processing_step_names, dataset, config, split) ==
    LET best_response ==
            get_best_response(cache, processing_step_names, dataset, config, split)
    IN  IF best_response.response.http_status # HTTP_OK
        THEN LET tried == try_backfill_dataset_then_raise(q, processing_step_names, dataset)
             IN  [raises |-> tried.raises, response |-> NotFoundResponse,
                  jobs |-> tried.jobs, support_checked |-> tried.support_checked]
        ELSE [raises |-> None, response |-> best_response.response, jobs |-> q,
              support_checked |-> FALSE]

\* get_cache_entry_from_steps: the cached record returned (raises: None), or
\* the error raised, the job collection, and whether the hub was asked
get_cache_entry_from_steps(q, processing_step_names, dataset, config, split) ==
    LET best_response ==
            get_best_response(cache, processing_step_names, dataset, config, split)
    IN  IF best_response.response.error_code = CACHED_RESPONSE_NOT_FOUND
        THEN LET tried == try_backfill_dataset_then_raise(q, processing_step_names, dataset)
             IN  [raises |-> tried.raises, response |-> NotFoundResponse,
                  jobs |-> tried.jobs, support_checked |-> tried.support_checked]
        ELSE [raises |-> None, response |-> best_response.response, jobs |-> q,
              support_checked |-> FALSE]

\* the lists of kinds the endpoints of the model read
Endpoints == {<<DSN>>, <<SNI, SNS>>}

----------------------------------------------------------------------------
(* Actions *)

\* no function has been applied
NoOut == [called |-> FALSE]

Init ==
    /\ hub \in [Datasets -> {1, NoRevision, HubNotFound}]
    /\ cache = [key \in Keys |-> NoEntry]
    /\ jobs = <<>>
    /\ pc = [w \in Workers |-> "idle"]
    /\ job = [w \in Workers |-> NoJob]
    /\ rev = [w \in Workers |-> NoRevision]
    /\ err = [w \in Workers |-> None]
    /\ result = [w \in Workers |-> None]
    /\ reclaims = 0
    /\ out = NoOut

\* the planner's pass on a dataset: DatasetState(dataset).backfill()
Backfill(dataset) ==
    /\ Len(planBackfill(jobs, dataset, TRUE, LOW)) <= MaxJobs
    /\ jobs' = planBackfill(jobs, dataset, TRUE, LOW)
    /\ UNCHANGED <<hub, cache, pc, job, rev, err, result, reclaims, out>>

\* a GET on an endpoint: get_cache_entry_from_steps
ApiRead(kinds, dataset, config, split) ==
    LET got == get_cache_entry_from_steps(jobs, kinds, dataset, config, split)
    IN  /\ Len(got.jobs) <= MaxJobs
        /\ jobs' = got.jobs
        /\ UNCHANGED <<hub, cache, pc, job, rev, err, result, reclaims, out>>

\* what JobRunner.run does before the compute, for a runner built by worker
\* w for job j: should_skip_job, then, unless the job is skipped, process up
\* to the revision
run_start(w, j) ==
    LET key == JobKey(j)
        version == get_job_runner_version(w, key.kind)
        asks == SkipAsksRevision(j.force, cache[key], version)
        first == get_dataset_git_revision(NoRevision, j.dataset)
    IN  IF asks /\ should_skip_job(j.force, cache[key], version, first)
        THEN [cache |-> cache, result |-> SKIPPED, err |-> None, to |-> "end",
              rev |-> Memo(NoRevision, first)]
        ELSE LET memo == IF asks THEN Memo(NoRevision, first) ELSE NoRevision
                 answer == get_dataset_git_revision(memo, j.dataset)
                 p == process_revision(cache, key, answer, version)
             IN  [cache |-> p.cache,
                  result |-> IF p.go_on THEN None ELSE ERROR,
                  err |-> p.err,
                  to |-> IF p.go_on THEN "compute" ELSE "end",
                  rev |-> Memo(memo, answer)]

\* the worker loop of w: Queue.start_job leases the next job, a JobRunner is
\* built and runs up to the compute
StartJob(w) ==
    /\ pc[w] = "idle"
    /\ \E j \in JobIds : Startable(j)
    /\ LET r == run_start(w, jobs[NextJob])
       IN  /\ cache' = r.cache
           /\ rev' = [rev EXCEPT ![w] = r.rev]
           /\ err' = [err EXCEPT ![w] = r.err]
           /\ result' = [result EXCEPT ![w] = r.result]
           /\ pc' = [pc EXCEPT ![w] = r.to]
    /\ jobs' = [jobs EXCEPT ![NextJob].status = STARTED,
                            ![NextJob].owner = w]
    /\ job' = [job EXCEPT ![w] = JobInfo(jobs[NextJob])]
    /\ UNCHANGED <<hub, reclaims, out>>

\* JobRunner.process, from pre_compute to the cache update
Compute(w) ==
    /\ pc[w] = "compute"
    /\ LET key == JobKey(job[w])
           version == get_job_runner_version(w, key.kind)
       IN  \E outcome \in ComputeOutcomes :
              LET p == process_outcome(cache, key, outcome, version, rev[w])
              IN  /\ cache' = p.cache
                  /\ err' = [err EXCEPT ![w] = p.err]
                  /\ result' = [result EXCEPT ![w] = IF p.returns THEN SUCCESS ELSE ERROR]
    /\ pc' = [pc EXCEPT ![w] = "end"]
    /\ UNCHANGED <<hub, jobs, job, rev, reclaims, out>>

\* the end of JobRunner.run and of the loop: create_children_jobs, then
\* Queue.finish_job with the result; the JobRunner is dropped
Finish(w) ==
    /\ pc[w] = "end"
    /\ LET q == create_children_jobs(jobs, JobKey(job[w]), job[w].force,
                                     job[w].priority)
       IN  /\ Len(q) <= MaxJobs
           /\ jobs' = Expire(finish_job(q, job[w].job_id, w, result[w]),
                             job[w].job_id)
    /\ pc' = [pc EXCEPT ![w] = "idle"]
    /\ job' = [job EXCEPT ![w] = NoJob]
    /\ rev' = [rev EXCEPT ![w] = NoRevision]
    /\ err' = [err EXCEPT ![w] = None]
    /\ result' = [result EXCEPT ![w] = None]
    /\ UNCHANGED <<hub, cache, reclaims, out>>

\* the heartbeat of a worker whose lease is lost fails: the worker abandons
\* the job (specification 4.3, 5)
Heartbeat(w) ==
    /\ pc[w] \in {"compute", "end"}
    /\ ~HoldsLease(jobs, job[w].job_id, w)
    /\ pc' = [pc EXCEPT ![w] = "idle"]
    /\ job' = [job EXCEPT ![w] = NoJob]
    /\ rev' = [rev EXCEPT ![w] = NoRevision]
    /\ err' = [err EXCEPT ![w] = None]
    /\ result' = [result EXCEPT ![w] = None]
    /\ UNCHANGED <<hub, cache, jobs, reclaims, out>>

\* JobRunner.set_crashed, by the reclaimer (which runs the current release)
set_crashed(c, key, revision) ==
    IF revision = HubNotFound
    THEN c
    ELSE upsert_response(c, key,
            Entry(ErrorContent, status_code("JobRunnerCrashedError"),
                  "JobRunnerCrashedError", specification[key.kind].job_runner_version,
                  revision, NoProgress))

\* a reclaimer that gives up every silent job as crashed
ReclaimToError(j) ==
    /\ jobs[j].status = STARTED
    /\ reclaims < MaxReclaims
    /\ reclaims' = reclaims + 1
    /\ jobs' = Expire([jobs EXCEPT ![j].status = ERROR], j)
    /\ cache' = set_crashed(cache, JobKey(jobs[j]), hub[jobs[j].dataset])
    /\ UNCHANGED <<hub, pc, job, rev, err, result, out>>

\* reclaimZombies (specification 4.3) on a job whose heartbeats have been
\* silent for longer than the allowed silence: back to WAITING, or to ERROR with JobRunnerCrashedError once retried MaxRetries times
Reclaim(j) ==
    /\ jobs[j].status = STARTED
    /\ reclaims < MaxReclaims
    /\ reclaims' = reclaims + 1
    /\ IF jobs[j].retries < MaxRetries
       THEN /\ jobs' = [jobs EXCEPT ![j].status = WAITING,
                                    ![j].owner = None,
                                    ![j].retries = @ + 1]
            /\ cache' = cache
       ELSE /\ jobs' = Expire([jobs EXCEPT ![j].status = ERROR], j)
            /\ cache' = set_crashed(cache, JobKey(jobs[j]), hub[jobs[j].dataset])
    /\ UNCHANGED <<hub, pc, job, rev, err, result, out>>

\* a commit is pushed to the dataset repository
HubUpdate(dataset) ==
    /\ hub[dataset] >= 1
    /\ hub[dataset] < MaxRev
    /\ hub' = [hub EXCEPT ![dataset] = @ + 1]
    /\ UNCHANGED <<cache, jobs, pc, job, rev, err, result, reclaims, out>>

\* the dataset is deleted from the hub and the webhook handles the event:
\* delete (api/dataset.py) deletes the cache entries of the dataset; it does
\* not touch the queue
DatasetDeleted(dataset) ==
    /\ hub[dataset] # HubNotFound
    /\ hub' = [hub EXCEPT ![dataset] = HubNotFound]
    /\ cache' = [key \in Keys |->
                    IF key.dataset = dataset THEN NoEntry ELSE cache[key]]
    /\ UNCHANGED <<jobs, pc, job, rev, err, result, reclaims, out>>

Next ==
    \/ \E d \in Datasets : Backfill(d)
    \/ \E kinds \in Endpoints, d \in Datasets :
          \E i \in InputsOf(specification[kinds[1]].input_type) :
              i[1] = d /\ ApiRead(kinds, d, i[2], i[3])
    \/ \E w \in Workers : StartJob(w)
    \/ \E w \in Workers : Compute(w)
    \/ \E w \in Workers : Finish(w)
    \/ \E w \in Workers : Heartbeat(w)
    \/ \E j \in JobIds : Reclaim(j)
    \/ \E d \in Datasets : HubUpdate(d)
    \/ \E d \in Datasets : DatasetDeleted(d)

Spec == Init /\ [][Next]_vars

----------------------------------------------------------------------------
(* get_best_response on any cache and any list of kinds *)

\* a successful and a failed entry
OkEntry == Entry(OtherContent, HTTP_OK, None, 1, 1, COMPLETE)
ErrorEntry ==
    Entry(ErrorContent, HTTP_INTERNAL_SERVER_ERROR, "UnexpectedError", 1, 1, NoProgress)

\* the lists of distinct kinds of one input type, up to MaxKinds long
KindsLists ==
    UNION {{kinds \in [1..n -> Steps] :
               /\ \A i, k \in 1..n : i # k => kinds[i] # kinds[k]
               /\ \A i \in 1..n :
                     specification[kinds[i]].input_type = specification[kinds[1]].input_type}
           : n \in 1..MaxKinds}

\* the keys that hold an entry: those of one config and one split
BestKeys == {key \in Keys : key.config \in {None, "c"} /\ key.split \in {None, "s"}}

InitBest ==
    /\ hub = [d \in Datasets |-> 1]
    /\ \E c \in [BestKeys -> {NoEntry, OkEntry, ErrorEntry}] :
          cache = [key \in Keys |-> IF key \in BestKeys THEN c[key] ELSE NoEntry]
    /\ jobs = <<>>
    /\ pc = [w \in Workers |-> "idle"]
    /\ job = [w \in Workers |-> NoJob]
    /\ rev = [w \in Workers |-> NoRevision]
    /\ err = [w \in Workers |-> None]
    /\ result = [w \in Workers |-> None]
    /\ reclaims = 0
    /\ out = NoOut

\* a call of get_best_response
Best(kinds, dataset, config, split) ==
    /\ out' = [called |-> TRUE, kinds |-> kinds, dataset |-> dataset, config |-> config,
               split |-> split,
               best |-> get_best_response(cache, kinds, dataset, config, split)]
    /\ UNCHANGED <<hub, cache, jobs, pc, job, rev, err, result, reclaims>>

NextBest ==
    \E kinds \in KindsLists :
        \E i \in InputsOf(specification[kinds[1]].input_type) :
            Best(kinds, i[1], i[2], i[3])

SpecBest == InitBest /\ [][NextBest]_vars

----------------------------------------------------------------------------
(* should_skip_job on any cache entry, job and answer of the hub *)

SkipKey == Key(DSN, "a/x", None, None)

\* the versions of the releases, and none for the entries written before
\* the version was recorded
SkipVersions ==
    {NoVersion} \cup {get_job_runner_version(w, SkipKey.kind) : w \in Workers}

\* the entries the cache can hold for a key: written by process (a result
\* with its progress, or an error with none, and with no revision when the
\* hub gave none) by the current or the previous release, or before the
\* version was recorded
SkipEntries ==
    {NoEntry}
    \cup {Entry(OtherContent, HTTP_OK, None, version, revision, progress) :
            version \in SkipVersions, revision \in 1..MaxRev,
            progress \in {PARTIAL, COMPLETE}}
    \cup {Entry(ErrorContent, HTTP_INTERNAL_SERVER_ERROR, code, version, revision, NoProgress) :
            code \in {"ClientConnectionError", "UnexpectedError"},
            version \in SkipVersions, revision \in 0..MaxRev}

InitSkip ==
    /\ hub \in [Datasets -> {HubNotFound, NoRevision} \cup 1..MaxRev]
    /\ \E entry \in SkipEntries :
          cache = [key \in Keys |-> IF key = SkipKey THEN entry ELSE NoEntry]
    /\ jobs = <<>>
    /\ pc = [w \in Workers |-> "idle"]
    /\ job = [w \in Workers |-> NoJob]
    /\ rev = [w \in Workers |-> NoRevision]
    /\ err = [w \in Workers |-> None]
    /\ result = [w \in Workers |-> None]
    /\ reclaims = 0
    /\ out = NoOut

\* a call of should_skip_job by a runner of worker w; the call to the hub
\* answers, or fails (HubError)
Skip(w, force, answer) ==
    /\ out' = [called |-> TRUE, worker |-> w, force |-> force, answer |-> answer,
               skipped |-> should_skip_job(force, cache[SkipKey],
                              get_job_runner_version(w, SkipKey.kind), answer)]
    /\ UNCHANGED <<hub, cache, jobs, pc, job, rev, err, result, reclaims>>

NextSkip ==
    \E w \in Workers, force \in BOOLEAN :
        \E answer \in {hub[SkipKey.dataset], HubError} :
            Skip(w, force, answer)

SpecSkip == InitSkip /\ [][NextSkip]_vars

----------------------------------------------------------------------------
(* DatasetState.get_backfill_tasks on any cache and queue *)

\* entries of a step: a result with the given names, written by the current
\* or the previous release at the given revision, or an error
PlanOk(step, content, release, revision) ==
    Entry(content, HTTP_OK, None, specification[step].job_runner_version - release,
          revision, COMPLETE)
PlanError(step, code) ==
    Entry(ErrorContent, status_code(code), code,
          specification[step].job_runner_version, 1, NoProgress)

PlanConfigNames ==
    {NoEntry, PlanError(CN, "UnexpectedError"),
     PlanOk(CN, ConfigNamesContent({"c"}), 0, 1),
     PlanOk(CN, ConfigNamesContent({"c", "d"}), 0, 1),
     PlanOk(CN, ConfigNamesContent({"c", "d"}), 1, 1),
     PlanOk(CN, ConfigNamesContent({"c", "d"}), 0, 2)}
PlanSplitNamesInfo ==
    {NoEntry, PlanError(SNI, "ClientConnectionError"),
     PlanOk(SNI, SplitNamesContent({"s", "t"}), 0, 1)}
PlanSplitNamesStreaming ==
    {NoEntry, PlanOk(SNS, SplitNamesContent({"t"}), 0, 1),
     PlanOk(SNS, SplitNamesContent({"s"}), 1, 1)}
PlanFirstRows ==
    {NoEntry, PlanOk(FR, OtherContent, 0, 1), PlanError(FR, "ClientConnectionError")}

\* the queue: empty, or one job in process for one key
PlanJobKeys ==
    {Key(CN, "a/x", None, None), Key(SNS, "a/x", "c", None), Key(FR, "a/x", "c", "t")}
PlanQueues ==
    {<<>>} \cup
    {<<NewJob(<<>>, key.kind, key.dataset, key.config, key.split, TRUE, LOW)>> :
        key \in PlanJobKeys}

InitPlan ==
    /\ hub \in [Datasets -> 1..MaxRev]
    /\ \E cn \in PlanConfigNames, sni \in PlanSplitNamesInfo,
          sns \in PlanSplitNamesStreaming, snd \in {NoEntry, PlanOk(SNI, SplitNamesContent({"t"}), 0, 1)},
          fr \in PlanFirstRows, frt \in {NoEntry, PlanOk(FR, OtherContent, 0, 1)},
          dsn \in {NoEntry, PlanOk(DSN, OtherContent, 0, 1)} :
          cache = [key \in Keys |->
                     CASE key.kind = CN -> cn
                       [] key.kind = DSN -> dsn
                       [] key.kind = SNI /\ key.config = "c" -> sni
                       [] key.kind = SNS /\ key.config = "c" -> sns
                       [] key.kind = SNI /\ key.config = "d" -> snd
                       [] key.kind = FR /\ key.config = "c" /\ key.split = "s" -> fr
                       [] key.kind = FR /\ key.split = "t" -> frt
                       [] OTHER -> NoEntry]
    \* no entry was written at a revision the hub has not reached
    /\ \A key \in Keys :
          cache[key] # NoEntry => cache[key].dataset_git_revision <= hub[key.dataset]
    /\ jobs \in PlanQueues
    /\ pc = [w \in Workers |-> "idle"]
    /\ job = [w \in Workers |-> NoJob]
    /\ rev = [w \in Workers |-> NoRevision]
    /\ err = [w \in Workers |-> None]
    /\ result = [w \in Workers |-> None]
    /\ reclaims = 0
    /\ out = NoOut

\* a call of DatasetState(dataset).get_backfill_tasks()
Plan(dataset) ==
    /\ out' = [called |-> TRUE, dataset |-> dataset,
               tasks |-> DatasetState_get_backfill_tasks(dataset)]
    /\ UNCHANGED <<hub, cache, jobs, pc, job, rev, err, result, reclaims>>

NextPlan == \E dataset \in Datasets : Plan(dataset)

SpecPlan == InitPlan /\ [][NextPlan]_vars

----------------------------------------------------------------------------
(* JobRunner.process on any parallel entry, outcome and answer of the hub *)

\* the jobs processed: of a step with a parallel step, and of a step with none
ProcessKeys ==
    {Key(SNI, "a/x", "c", None), Key(CN, "a/x", None, None)}

\* the entries of the parallel step: none, a complete result of the current
\* or of the previous release, a partial result, an error
ParallelEntries ==
    {NoEntry,
     PlanOk(SNS, SplitNamesContent({"s"}), 0, 1),
     PlanOk(SNS, SplitNamesContent({"s"}), 1, 1),
     Entry(SplitNamesContent({"s"}), HTTP_OK, None,
           specification[SNS].job_runner_version, 1, PARTIAL),
     PlanError(SNS, "UnexpectedError")}

\* worker_config.content_max_bytes, in units of the model
content_max_bytes == 2

\* len(orjson_dumps(content)) of the content a compute returns
ContentSizes == 1..(content_max_bytes + 1)

\* variant: a content of exactly content_max_bytes is refused too
size_check_at_cap(outcome, size) ==
    IF outcome = "ok" /\ size >= content_max_bytes
    THEN "TooBigContentError"
    ELSE outcome

\* the size check of process: what the inner block ends with when compute
\* ended with outcome and, if it returned, with a content of that size
size_check(outcome, size) ==
    IF outcome = "ok" /\ size > content_max_bytes
    THEN "TooBigContentError"
    ELSE outcome

\* JobRunner.process with the size of the computed content
process_sized(c, key, answer, outcome, size, version) ==
    process(c, key, answer, size_check(outcome, size), version)

InitProcess ==
    /\ hub \in [Datasets -> {HubNotFound, NoRevision} \cup 1..MaxRev]
    /\ \E parallel \in ParallelEntries :
          cache = [key \in Keys |->
                     IF key = Key(SNS, "a/x", "c", None) THEN parallel ELSE NoEntry]
    /\ jobs = <<>>
    /\ pc = [w \in Workers |-> "idle"]
    /\ job = [w \in Workers |-> NoJob]
    /\ rev = [w \in Workers |-> NoRevision]
    /\ err = [w \in Workers |-> None]
    /\ result = [w \in Workers |-> None]
    /\ reclaims = 0
    /\ out = NoOut

\* a call of JobRunner.process by a runner of worker w for the job of key;
\* the call to the hub answers, or fails (HubError)
Process(w, key, answer, outcome, size) ==
    LET p == process_sized(cache, key, answer, outcome, size,
                           get_job_runner_version(w, key.kind))
    IN  /\ cache' = p.cache
        /\ out' = [called |-> TRUE, worker |-> w, key |-> key, answer |-> answer,
                   outcome |-> outcome,
                   size |-> IF p.computed /\ outcome = "ok" THEN size ELSE 0,
                   returns |-> p.returns, error |-> p.err, computed |-> p.computed,
                   post_compute |-> p.post_compute]
        /\ UNCHANGED <<hub, jobs, pc, job, rev, err, result, reclaims>>

NextProcess ==
    \E w \in Workers, key \in ProcessKeys, outcome \in ComputeOutcomes,
       size \in ContentSizes :
        \E answer \in {hub[key.dataset], HubError} :
            Process(w, key, answer, outcome, size)

SpecProcess == InitProcess /\ [][NextProcess]_vars

----------------------------------------------------------------------------
(* The routes /rows and /filter and their responses *)

\* rows.py MAX_ROWS (MAX_NUM_ROWS_PER_PAGE in the search service)
MAX_ROWS == 100
\* api/constants.py
DEFAULT_MAX_AGE_LONG_SECONDS == 120
DEFAULT_MAX_AGE_SHORT_SECONDS == 10

\* get_json_response: the status, the headers Cache-Control, X-Error-Code and
\* X-Revision (None: header absent) of the response, and whether the route
\* read rows to build it
get_json_response(http_status, max_age, error_code, revision, rows_read) ==
    [status_code |-> http_status,
     cache_control |-> IF max_age > 0 THEN <<"max-age", max_age>> ELSE <<"no-store", 0>>,
     error_code |-> error_code,
     revision |-> IF revision = NoRevision THEN None ELSE revision,
     rows_read |-> rows_read]

get_json_ok_response(max_age, revision, rows_read) ==
    get_json_response(HTTP_OK, max_age, None, revision, rows_read)

get_json_error_response(http_status, max_age, error_code, revision) ==
    get_json_response(http_status, max_age, error_code, revision, FALSE)

\* get_json_api_error_response; the status of the error classes of
\* libapi.exceptions is the one the specification gives them
ApiErrorStatus(code) ==
    CASE code = "ResponseNotFound" -> HTTP_NOT_FOUND
      [] code = "ResponseNotReady" -> HTTP_INTERNAL_SERVER_ERROR
      [] OTHER -> 422

get_json_api_error_response(code, max_age, revision) ==
    get_json_error_response(ApiErrorStatus(code), max_age, code, revision)

\* the validation of offset and length: the error raised, or None
validate_page(offset, length) ==
    IF offset < 0 THEN "InvalidParameter"
    ELSE IF length < 0 THEN "InvalidParameter"
    ELSE IF length > MAX_ROWS THEN "InvalidParameter"
    ELSE None

\* the step whose entry the route validates against; the graph of the model
\* has one split step, which stands for it
FilterSteps == <<FR>>

\* filter_endpoint: the response, and the job collection after the read
filter_endpoint(q, dataset, config, split, offset, length, max_age_long, max_age_short) ==
    LET invalid == validate_page(offset, length)
        got == get_cache_entry_from_steps(q, FilterSteps, dataset, config, split)
    IN  IF invalid # None
        THEN [response |-> get_json_api_error_response(invalid, max_age_short, NoRevision),
              jobs |-> q]
        ELSE IF got.raises # None
        THEN [response |-> get_json_api_error_response(got.raises, max_age_short, NoRevision),
              jobs |-> got.jobs]
        ELSE IF got.response.http_status # HTTP_OK
        THEN [response |-> get_json_error_response(got.response.http_status, max_age_short,
                               got.response.error_code,
                               got.response.dataset_git_revision),
              jobs |-> got.jobs]
        ELSE [response |-> get_json_ok_response(max_age_long,
                               got.response.dataset_git_revision, TRUE),
              jobs |-> got.jobs]

\* the requests: offsets and lengths around the limits, and the two pairs of
\* max ages: the defaults of the route factory and those of the service
Offsets == {-1, 0, 1}
Lengths == {-1, 0, 1, MAX_ROWS, MAX_ROWS + 1}
MaxAges == {<<0, 0>>, <<DEFAULT_MAX_AGE_LONG_SECONDS, DEFAULT_MAX_AGE_SHORT_SECONDS>>}

FilterKey == Key(FR, "a/x", "c", "s")

InitApi ==
    /\ hub \in [Datasets -> {1, HubNotFound}]
    /\ \E entry \in {NoEntry, OkEntry, ErrorEntry}, other \in {NoEntry, OkEntry} :
          cache = [key \in Keys |->
                     IF key = FilterKey THEN entry
                     ELSE IF key.kind = CN THEN other
                     ELSE NoEntry]
    /\ jobs \in {<<>>,
                 <<NewJob(<<>>, FR, FilterKey.dataset, FilterKey.config, FilterKey.split,
                          FALSE, LOW)>>}
    /\ pc = [w \in Workers |-> "idle"]
    /\ job = [w \in Workers |-> NoJob]
    /\ rev = [w \in Workers |-> NoRevision]
    /\ err = [w \in Workers |-> None]
    /\ result = [w \in Workers |-> None]
    /\ reclaims = 0
    /\ out = NoOut

\* a GET on /filter (or /rows, whose validation is the same)
FilterRequest(offset, length, max_ages) ==
    LET r == filter_endpoint(jobs, FilterKey.dataset, FilterKey.config, FilterKey.split,
                             offset, length, max_ages[1], max_ages[2])
    IN  /\ jobs' = r.jobs
        /\ out' = [called |-> TRUE, offset |-> offset, length |-> length,
                   max_ages |-> max_ages, response |-> r.response]
        /\ UNCHANGED <<hub, cache, pc, job, rev, err, result, reclaims>>

NextApi ==
    \E offset \in Offsets, length \in Lengths, max_ages \in MaxAges :
        FilterRequest(offset, length, max_ages)

SpecApi == InitApi /\ [][NextApi]_vars

----------------------------------------------------------------------------
(* The webhook: the 'update' event of a dataset whose cache is full *)

\* mark_splits_responses_as_stale and mark_first_rows_responses_as_stale:
\* every entry of the dataset gets the stale mark
mark_responses_as_stale(c, dataset) ==
    [key \in Keys |->
        IF key.dataset = dataset /\ c[key] # NoEntry
        THEN [stale |-> TRUE] @@ c[key]
        ELSE c[key]]

\* add_splits_job: a job of the first step of the dataset, at the default
\* priority of the queue
add_splits_job(q, dataset) ==
    upsert_job(q, CN, dataset, None, None, FALSE, NORMAL)

\* the keys the hub gives the dataset: its configs and their splits
HubKeys ==
    {key \in Keys :
        /\ key.config \in {None} \cup HubConfigs(key.dataset)
        /\ key.split \in {None} \cup HubSplits(key.dataset, key.config)}

\* the entry a successful job of the current release writes for the key
FullEntry(key, revision) ==
    PlanOk(key.kind, ComputedContent(key), 0, revision)

\* the cache is full at revision 1, or full but for the first rows; the
\* queue is empty
InitHook ==
    /\ hub = [d \in Datasets |-> 1]
    /\ \E present \in {HubKeys, {key \in HubKeys : key.kind # FR}} :
          cache = [key \in Keys |->
                      IF key \in present THEN FullEntry(key, 1) ELSE NoEntry]
    /\ jobs = <<>>
    /\ pc = [w \in Workers |-> "idle"]
    /\ job = [w \in Workers |-> NoJob]
    /\ rev = [w \in Workers |-> NoRevision]
    /\ err = [w \in Workers |-> None]
    /\ result = [w \in Workers |-> None]
    /\ reclaims = 0
    /\ out = NoOut

\* the webhook handles the 'update' event of the dataset: update
Update(dataset) ==
    /\ hub[dataset] # HubNotFound
    /\ Len(add_splits_job(jobs, dataset)) <= MaxJobs
    /\ cache' = mark_responses_as_stale(cache, dataset)
    /\ jobs' = add_splits_job(jobs, dataset)
    /\ UNCHANGED <<hub, pc, job, rev, err, result, reclaims, out>>

NextHook ==
    \/ \E d \in Datasets : HubUpdate(d)
    \/ \E d \in Datasets : Update(d)
    \/ \E d \in Datasets : Backfill(d)
    \/ \E w \in Workers : StartJob(w)
    \/ \E w \in Workers : Compute(w)
    \/ \E w \in Workers : Finish(w)

\* the loop of a worker never stops: it leases a job whenever one can be
\* leased, runs it and finishes it
SpecHook ==
    /\ InitHook
    /\ [][NextHook]_vars
    /\ \A w \in Workers : WF_vars(StartJob(w) \/ Compute(w) \/ Finish(w))

----------------------------------------------------------------------------
(* DatasetState on any entries of the config names and the split names *)

\* an entry as upsert_response stores it: any content with any status
FetchEntries(step, content) ==
    {NoEntry,
     PlanOk(step, content, 0, 1),
     PlanOk(step, OtherContent, 0, 1),
     PlanError(step, "UnexpectedError"),
     Entry(content, HTTP_INTERNAL_SERVER_ERROR, "UnexpectedError",
           specification[step].job_runner_version, 1, NoProgress)}

InitFetch ==
    /\ hub = [d \in Datasets |-> 1]
    /\ \E cn \in FetchEntries(CN, ConfigNamesContent({"c"})),
          sni \in FetchEntries(SNI, SplitNamesContent({"s"})),
          sns \in FetchEntries(SNS, SplitNamesContent({"s", "t"})) :
          cache = [key \in Keys |->
                     CASE key.kind = CN -> cn
                       [] key.kind = SNI /\ key.config = "c" -> sni
                       [] key.kind = SNS /\ key.config = "c" -> sns
                       [] OTHER -> NoEntry]
    /\ jobs = <<>>
    /\ pc = [w \in Workers |-> "idle"]
    /\ job = [w \in Workers |-> NoJob]
    /\ rev = [w \in Workers |-> NoRevision]
    /\ err = [w \in Workers |-> None]
    /\ result = [w \in Workers |-> None]
    /\ reclaims = 0
    /\ out = NoOut

SpecFetch == InitFetch /\ [][NextPlan]_vars

----------------------------------------------------------------------------
(* The planner and a job whose previous step is in any state *)

\* the content of the previous step: the dataset info of the configs
DatasetInfoContent(configs) == [tag |-> "dataset_info", names |-> configs]

\* the entry of /parquet-and-dataset-info: none, an error, a result without
\* the config, a result with it
PreviousEntries ==
    {NoEntry,
     Entry(ErrorContent, HTTP_INTERNAL_SERVER_ERROR, "UnexpectedError", 1, 1, NoProgress),
     Entry(OtherContent, HTTP_OK, None, 1, 1, COMPLETE),
     Entry(DatasetInfoContent({"d"}), HTTP_OK, None, 1, 1, COMPLETE),
     Entry(DatasetInfoContent({"c", "d"}), HTTP_OK, None, 1, 1, COMPLETE)}

\* compute_split_names_from_dataset_info_response: what the compute ends
\* with, given the cached response of the previous step
compute_split_names_from_dataset_info_response(response, config) ==
    IF response = NoEntry THEN "DatasetNotFoundError"
    ELSE IF response.http_status # HTTP_OK THEN "PreviousStepStatusError"
    ELSE IF response.content.tag # "dataset_info" THEN "PreviousStepFormatError"
    ELSE IF config \notin response.content.names THEN "PreviousStepFormatError"
    ELSE "ok"

\* a call of JobRunner.process for the split names from dataset info of
\* config c, the previous step being cached as response
ProcessSplitNames(w, answer, response) ==
    LET key == Key(SNI, "a/x", "c", None)
        outcome == compute_split_names_from_dataset_info_response(response, key.config)
        p == process(cache, key, answer, outcome, get_job_runner_version(w, key.kind))
    IN  /\ cache' = p.cache
        /\ out' = [called |-> TRUE, worker |-> w, key |-> key, answer |-> answer,
                   previous |-> response, outcome |-> outcome,
                   returns |-> p.returns, error |-> p.err, computed |-> p.computed]
        /\ UNCHANGED <<hub, jobs, pc, job, rev, err, result, reclaims>>

\* one call on each cache and queue: of the planner, or of process
NextGate ==
    \/ \E dataset \in Datasets : ~out.called /\ Plan(dataset)
    \/ \E w \in Workers, response \in PreviousEntries :
          \E answer \in {hub["a/x"], HubError} :
              ~out.called /\ ProcessSplitNames(w, answer, response)

SpecGate == InitPlan /\ [][NextGate]_vars

----------------------------------------------------------------------------
(* LibrariesResource: the settings of the datasets library *)

\* the resources of the process and their endpoints
Resources == {"r1", "r2"}
hf_endpoint(r) == IF r = "r1" THEN "https://another.endpoint" ELSE "https://third.endpoint"

\* log_levels of the datasets library
LogLevels == {"debug", "warning", "critical"}

\* the settings before any resource: datasets.config.HF_ENDPOINT,
\* datasets.config.HF_UPDATE_DOWNLOAD_COUNTS, get_verbosity()
LibrarySettings ==
    [HF_ENDPOINT : {"https://huggingface.co"},
     HF_UPDATE_DOWNLOAD_COUNTS : BOOLEAN,
     verbosity : LogLevels]

\* a resource that was not constructed yet
NoResource == [allocated |-> FALSE, released |-> FALSE]

\* LibrariesResource.allocate: the resource keeps the settings in place and
\* sets its own
allocate(settings, r) ==
    [settings |-> [HF_ENDPOINT |-> hf_endpoint(r),
                   HF_UPDATE_DOWNLOAD_COUNTS |-> FALSE,
                   verbosity |-> "critical"],
     resource |-> [allocated |-> TRUE, released |-> FALSE,
                   previous_hf_endpoint |-> settings.HF_ENDPOINT,
                   previous_hf_update_download_counts |->
                       settings.HF_UPDATE_DOWNLOAD_COUNTS,
                   previous_verbosity |-> settings.verbosity]]

\* variant: the verbosity is left as it is
release_keeping_verbosity(settings, resource) ==
    [HF_ENDPOINT |-> resource.previous_hf_endpoint,
     HF_UPDATE_DOWNLOAD_COUNTS |-> resource.previous_hf_update_download_counts,
     verbosity |-> settings.verbosity]

\* LibrariesResource.release
release(settings, resource) ==
    [HF_ENDPOINT |-> resource.previous_hf_endpoint,
     HF_UPDATE_DOWNLOAD_COUNTS |-> resource.previous_hf_update_download_counts,
     verbosity |-> resource.previous_verbosity]

InitLibraries ==
    /\ hub = [d \in Datasets |-> 1]
    /\ cache = [key \in Keys |-> NoEntry]
    /\ jobs = <<>>
    /\ pc = [w \in Workers |-> "idle"]
    /\ job = [w \in Workers |-> NoJob]
    /\ rev = [w \in Workers |-> NoRevision]
    /\ err = [w \in Workers |-> None]
    /\ result = [w \in Workers |-> None]
    /\ reclaims = 0
    /\ \E settings \in LibrarySettings :
          out = [called |-> FALSE, settings |-> settings,
                 resources |-> [r \in Resources |-> NoResource]]

\* LibrariesResource(hf_endpoint=...): the construction allocates; with the
\* context manager this is the entry of the block
Allocate(r) ==
    /\ ~out.resources[r].allocated \/ out.resources[r].released
    /\ LET a == allocate(out.settings, r)
       IN  out' = [called |-> TRUE, settings |-> a.settings,
                   resources |-> [out.resources EXCEPT ![r] = a.resource]]
    /\ UNCHANGED <<hub, cache, jobs, pc, job, rev, err, result, reclaims>>

\* resource.release(), or the exit of the block of the context manager
Release(r) ==
    /\ out.resources[r].allocated
    /\ ~out.resources[r].released
    /\ out' = [called |-> TRUE,
               settings |-> release(out.settings, out.resources[r]),
               resources |-> [out.resources EXCEPT ![r].released = TRUE]]
    /\ UNCHANGED <<hub, cache, jobs, pc, job, rev, err, result, reclaims>>

NextLibraries ==
    \/ \E r \in Resources : Allocate(r)
    \/ \E r \in Resources : Release(r)

SpecLibraries == InitLibraries /\ [][NextLibraries]_vars

----------------------------------------------------------------------------
(* query on the row groups of the parquet files (api/routes/rows.py) *)

\* the number of row groups and of rows in a row group, at most
MaxGroups == 3
MaxGroupRows == 2

\* the numbers of rows of the row groups of the parquet files
RowGroupSizes ==
    UNION {[1..n -> 1..MaxGroupRows] : n \in 1..MaxGroups}

\* np.cumsum of the numbers of rows: row_group_offsets of index()
RECURSIVE cumsum(_)
cumsum(sizes) ==
    IF sizes = <<>>
    THEN <<>>
    ELSE LET front == cumsum(SubSeq(sizes, 1, Len(sizes) - 1))
         IN  Append(front,
                    (IF front = <<>> THEN 0 ELSE front[Len(front)]) + sizes[Len(sizes)])

\* np.searchsorted(a, v, side="right"): the number of elements of a that
\* are at most v
searchsorted_right(a, v) ==
    Cardinality({i \in 1..Len(a) : a[i] <= v})

\* row_group_readers[i](): the rows of row group i (from 0), as their indices
\* in the split
read_row_group(row_group_offsets, i) ==
    LET first == IF i = 0 THEN 0 ELSE row_group_offsets[i]
    IN  [k \in 1..(row_group_offsets[i + 1] - first) |-> first + k - 1]

\* pa.concat_tables of the row groups first_id .. last_id
RECURSIVE concat_tables(_, _, _)
concat_tables(row_group_offsets, first_id, last_id) ==
    IF first_id > last_id
    THEN <<>>
    ELSE read_row_group(row_group_offsets, first_id)
         \o concat_tables(row_group_offsets, first_id + 1, last_id)

\* pa.Table.slice(offset, length)
slice(table, offset, length) ==
    IF offset >= Len(table)
    THEN <<>>
    ELSE SubSeq(table, offset + 1,
                IF offset + length < Len(table) THEN offset + length ELSE Len(table))

Min2(a, b) == IF a <= b THEN a ELSE b

\* query: the rows returned, as their indices in the split
query(offset, length, row_group_offsets) ==
    LET last_row_in_parquet == row_group_offsets[Len(row_group_offsets)] - 1
        first_row == Min2(offset, last_row_in_parquet)
        last_row == Min2(offset, Min2(offset + length - 1, last_row_in_parquet))
        first_row_group_id == searchsorted_right(row_group_offsets, first_row)
        last_row_group_id == searchsorted_right(row_group_offsets, last_row)
        pa_table == concat_tables(row_group_offsets, first_row_group_id,
                                  last_row_group_id)
        first_row_in_pa_table ==
            IF first_row_group_id > 0 THEN row_group_offsets[first_row_group_id] ELSE 0
    IN  slice(pa_table, offset - first_row_in_pa_table, length)

\* the lengths asked for: up to all the rows and one more
QueryLengths == 1..(MaxGroups * MaxGroupRows + 1)

InitQuery ==
    /\ hub = [d \in Datasets |-> 1]
    /\ cache = [key \in Keys |-> NoEntry]
    /\ jobs = <<>>
    /\ pc = [w \in Workers |-> "idle"]
    /\ job = [w \in Workers |-> NoJob]
    /\ rev = [w \in Workers |-> NoRevision]
    /\ err = [w \in Workers |-> None]
    /\ result = [w \in Workers |-> None]
    /\ reclaims = 0
    /\ \E sizes \in RowGroupSizes :
          out = [called |-> FALSE, row_group_offsets |-> cumsum(sizes)]

\* a call of query on the index of the parquet files
Query(offset, length) ==
    /\ out' = [called |-> TRUE, row_group_offsets |-> out.row_group_offsets,
               offset |-> offset, length |-> length,
               rows |-> query(offset, length, out.row_group_offsets)]
    /\ UNCHANGED <<hub, cache, jobs, pc, job, rev, err, result, reclaims>>

NextQuery ==
    \E offset \in 0..(out.row_group_offsets[Len(out.row_group_offsets)] - 1),
       length \in QueryLengths :
        Query(offset, length)

SpecQuery == InitQuery /\ [][NextQuery]_vars

----------------------------------------------------------------------------
(* Truncation of the first rows (first_rows/response.py) *)

\* the rows of a split, at most
MaxRows == 3

\* a row has one column "c"; its cell is a string of `text` ASCII letters
\* and `quotes` double quotes
Cell(text, quotes) == [text |-> text, quotes |-> quotes]
Cells == {Cell(1, 0), Cell(10, 0)}
RowsInputs == UNION {[1..n -> Cells] : n \in 0..MaxRows}
RowsMaxBytes == {0, 55, 115, 200}
MinCellBytes == {0, 5}

\* len(orjson_dumps(cell)): the two delimiters, one byte for a letter and
\* two bytes for an escaped double quote
cell_json_size(cell) == 2 + cell.text + 2 * cell.quotes

\* get_json_size of a row item
\* {"row_idx":N,"row":{"c":<cell>},"truncated_cells":[<names>]}
get_json_size(row_item) ==
    11 + 1 + 7 + 5 + cell_json_size(row_item.row) + 1 + 19
       + (IF row_item.truncated_cells = <<>> THEN 2 ELSE 5) + 1

\* utf8_byte_truncate of the JSON serialization of a cell that is longer
\* than max_bytes: its first max_bytes bytes, that is its opening double
\* quote and max_bytes - 1 letters
utf8_byte_truncate(cell, max_bytes) ==
    IF cell_json_size(cell) <= max_bytes
    THEN Cell(cell.text, cell.quotes + 2)
    ELSE IF max_bytes = 0 THEN Cell(0, 0)
         ELSE Cell(IF max_bytes - 1 < cell.text THEN max_bytes - 1 ELSE cell.text, 1)

truncate_row_item(row_item, min_cell_bytes) ==
    IF cell_json_size(row_item.row) <= min_cell_bytes
    THEN row_item
    ELSE [row_idx |-> row_item.row_idx,
          row |-> utf8_byte_truncate(row_item.row, min_cell_bytes),
          truncated_cells |-> Append(row_item.truncated_cells, "c")]

COMMA_SIZE == 1

RECURSIVE rows_size(_)
rows_size(row_items) ==
    IF row_items = <<>>
    THEN 0
    ELSE get_json_size(Head(row_items)) + rows_size(Tail(row_items))

\* the loop of truncate_row_items, backwards from the row item i
RECURSIVE truncate_backwards(_, _, _, _, _)
truncate_backwards(row_items, i, rows_bytes, min_cell_bytes, rows_max_bytes) ==
    IF i = 0 \/ rows_bytes < rows_max_bytes
    THEN row_items
    ELSE LET previous_size == get_json_size(row_items[i]) + COMMA_SIZE
             row_item == truncate_row_item(row_items[i], min_cell_bytes)
             new_size == get_json_size(row_item) + COMMA_SIZE
         IN  truncate_backwards([row_items EXCEPT ![i] = row_item], i - 1,
                                rows_bytes + new_size - previous_size,
                                min_cell_bytes, rows_max_bytes)

truncate_row_items(row_items, min_cell_bytes, rows_max_bytes) ==
    truncate_backwards(row_items, Len(row_items),
                       rows_size(row_items) + COMMA_SIZE * (Len(row_items) - 1),
                       min_cell_bytes, rows_max_bytes)

to_row_item(row_idx, row) ==
    [row_idx |-> row_idx, row |-> row, truncated_cells |-> <<>>]

\* step 3 of create_truncated_row_items: the remaining rows, from the row
\* at index row_idx, until the end or the bytes threshold
RECURSIVE add_remaining_rows(_, _, _, _, _)
add_remaining_rows(row_items, rows_bytes, row_idx, rows, rows_max_bytes) ==
    IF row_idx >= Len(rows)
    THEN row_items
    ELSE LET row_item == to_row_item(row_idx, rows[row_idx + 1])
             bytes == rows_bytes + get_json_size(row_item) + COMMA_SIZE
         IN  IF bytes >= rows_max_bytes
             THEN row_items
             ELSE add_remaining_rows(Append(row_items, row_item), bytes,
                                     row_idx + 1, rows, rows_max_bytes)

create_truncated_row_items(rows, min_cell_bytes, rows_max_bytes, rows_min_number) ==
    LET first == IF rows_min_number < Len(rows) THEN rows_min_number ELSE Len(rows)
        row_items == [i \in 1..first |-> to_row_item(i - 1, rows[i])]
        rows_bytes == rows_size(row_items) + COMMA_SIZE * first
    IN  IF rows_bytes >= rows_max_bytes
        THEN truncate_row_items(row_items, min_cell_bytes, rows_max_bytes)
        ELSE add_remaining_rows(row_items, rows_bytes, rows_min_number, rows,
                                rows_max_bytes)

InitRows ==
    /\ hub = [d \in Datasets |-> 1]
    /\ cache = [key \in Keys |-> NoEntry]
    /\ jobs = <<>>
    /\ pc = [w \in Workers |-> "idle"]
    /\ job = [w \in Workers |-> NoJob]
    /\ rev = [w \in Workers |-> NoRevision]
    /\ err = [w \in Workers |-> None]
    /\ result = [w \in Workers |-> None]
    /\ reclaims = 0
    /\ \E rows \in RowsInputs, rows_max_bytes \in RowsMaxBytes,
          min_cell_bytes \in MinCellBytes, rows_min_number \in 0..(MaxRows - 1) :
          out = [called |-> FALSE, rows |-> rows, rows_max_bytes |-> rows_max_bytes,
                 min_cell_bytes |-> min_cell_bytes,
                 rows_min_number |-> rows_min_number]

\* the call of create_truncated_row_items in get_first_rows_response
CreateTruncatedRowItems ==
    /\ ~out.called
    /\ out' = [out EXCEPT !.called = TRUE] @@
              [row_items |-> create_truncated_row_items(out.rows, out.min_cell_bytes,
                                 out.rows_max_bytes, out.rows_min_number)]
    /\ UNCHANGED <<hub, cache, jobs, pc, job, rev, err, result, reclaims>>

NextRows == CreateTruncatedRowItems

SpecRows == InitRows /\ [][NextRows]_vars

----------------------------------------------------------------------------
(* The planner and the workers on a hub that does not change *)

\* the workers of the current release
SteadyWorkers == Workers \ OldWorkers

\* the entries of earlier jobs at the revision of the hub, successes and
\* errors that are not retried; the jobs themselves have expired
InitSteady ==
    /\ hub = [d \in Datasets |-> 1]
    /\ \E present \in SUBSET HubKeys :
          \E failed \in SUBSET present :
              cache = [key \in Keys |->
                          IF key \in failed THEN PlanError(key.kind, "UnexpectedError")
                          ELSE IF key \in present THEN FullEntry(key, 1)
                          ELSE NoEntry]
    /\ jobs = <<>>
    /\ pc = [w \in Workers |-> "idle"]
    /\ job = [w \in Workers |-> NoJob]
    /\ rev = [w \in Workers |-> NoRevision]
    /\ err = [w \in Workers |-> None]
    /\ result = [w \in Workers |-> None]
    /\ reclaims = 0
    /\ out = NoOut

\* JobRunner.process with no retryable error and the dataset on the hub:
\* DatasetNotFoundError is left to the split names from the dataset info,
\* which raise it when the entry of the previous step is missing
SteadyCompute(w) ==
    /\ Compute(w)
    /\ err'[w] \notin ERROR_CODES_TO_RETRY
    /\ err'[w] = "DatasetNotFoundError" => job[w].type = SNI

NextSteady ==
    \/ \E d \in Datasets : Backfill(d)
    \/ \E w \in SteadyWorkers : StartJob(w)
    \/ \E w \in SteadyWorkers : SteadyCompute(w)
    \/ \E w \in SteadyWorkers : Finish(w)

\* a planner pass on the dataset would add a job: ENABLED <<Backfill(dataset)>>_vars
BackfillEnabled(dataset) ==
    /\ Len(planBackfill(jobs, dataset, TRUE, LOW)) <= MaxJobs
    /\ planBackfill(jobs, dataset, TRUE, LOW) # jobs

\* the planner passes go on (weak fairness of Backfill, with its enabling
\* condition written out) and the workers go on
SpecSteady ==
    /\ InitSteady
    /\ [][NextSteady]_vars
    /\ \A d \in Datasets :
          []<>(~BackfillEnabled(d)) \/ []<><<Backfill(d)>>_vars
    /\ \A w \in SteadyWorkers : WF_vars(StartJob(w) \/ SteadyCompute(w) \/ Finish(w))

----------------------------------------------------------------------------
(* Claims *)

FinalStatuses == {SUCCESS, ERROR, SKIPPED}

\* C1: at any time at most one job is WAITING or STARTED for a key, whoever
\* upserts (planner, fan-out, API read) and in whatever order; an upsert for
\* a key that has a job in flight inserts nothing.
C1_OneJobInFlightPerKey ==
    /\ \A i, k \in JobIds :
          (InFlight(jobs[i]) /\ InFlight(jobs[k]) /\ JobKey(jobs[i]) = JobKey(jobs[k]))
             => i = k
    /\ \A j \in JobIds : InFlight(jobs[j]) =>
          \A force \in BOOLEAN, priority \in {LOW, NORMAL, HIGH} :
              Len(upsert_job(jobs, jobs[j].type, jobs[j].dataset, jobs[j].config,
                             jobs[j].split, force, priority)) = Len(jobs)

\* the fan-out of a successful config names job has upserted the dataset's
\* split names while the job the planner created for them was in flight
C1_Witness ==
    /\ Len(jobs) = 2
    /\ jobs[1].type = CN /\ jobs[1].status = SUCCESS
    /\ jobs[2].type = DSN /\ InFlight(jobs[2])
    /\ cache[Key(CN, "a/x", None, None)] # NoEntry

\* C2: a finish by worker w moves the job to the final status if and only if
\* the job is STARTED and w owns its lease; in every other case no field of
\* the job record changes.
C2_FinishOnlyByOwner ==
    [][\A w \in Workers :
          (pc[w] = "end" /\ pc'[w] = "idle") =>
              IF /\ jobs[job[w].job_id].status = STARTED
                 /\ jobs[job[w].job_id].owner = w
              THEN /\ result[w] \in FinalStatuses
                   /\ jobs'[job[w].job_id] =
                         [jobs[job[w].job_id] EXCEPT !.status = result[w]]
              ELSE jobs'[job[w].job_id] = jobs[job[w].job_id]]_vars

\* a worker is about to finish a job whose lease another worker now holds
C2_Witness ==
    \E w \in Workers :
        /\ pc[w] = "end"
        /\ jobs[job[w].job_id].status = STARTED
        /\ jobs[job[w].job_id].owner \in Workers \ {w}

\* C3: right after a pass of the planner on a dataset, get_backfill_tasks
\* returns no task, and a second pass, with no worker progress in between,
\* creates no job.
C3_BackfillIdempotent ==
    [][\A d \in Datasets :
          (jobs' # jobs /\ pc' = pc /\ Backfill(d)) =>
              /\ DatasetState_get_backfill_tasks(d)' = <<>>
              /\ planBackfill(jobs, d, TRUE, LOW)' = jobs']_vars

\* the planner has queued the two split names jobs of the config, and has
\* nothing left to queue
C3_Witness ==
    /\ \E j \in JobIds :
          /\ jobs[j].type = SNI /\ jobs[j].status = WAITING
          /\ jobs[j].force /\ jobs[j].priority = LOW
    /\ \E j \in JobIds :
          /\ jobs[j].type = SNS /\ jobs[j].status = WAITING
          /\ jobs[j].force /\ jobs[j].priority = LOW
    /\ DatasetState_get_backfill_tasks("a/x") = <<>>

\* C4: the STARTED jobs of a namespace never exceed max_jobs_per_namespace;
\* with a ceiling of one, no dataset has two STARTED jobs.
C4_NamespaceCeiling ==
    /\ \A d \in Datasets :
          StartedInNamespace(Namespace(d)) <= max_jobs_per_namespace
    /\ max_jobs_per_namespace = 1 =>
          \A i, k \in JobIds :
              (jobs[i].status = STARTED /\ jobs[k].status = STARTED
               /\ jobs[i].dataset = jobs[k].dataset) => i = k

\* a job is STARTED and another one of the namespace waits although a
\* worker is idle
C4_Witness ==
    \E i, k \in JobIds, w \in Workers :
        /\ jobs[i].status = STARTED
        /\ jobs[k].status = WAITING
        /\ Namespace(jobs[i].dataset) = Namespace(jobs[k].dataset)
        /\ pc[w] = "idle"

\* C5: an entry written at a revision is never replaced by one of the same
\* revision and a lower job runner version, and the (revision, version) of the
\* successful entries stored for a key never decreases.
C5_CacheMonotonic ==
    [][\A key \in Keys :
          (cache[key] # NoEntry /\ cache'[key] # cache[key] /\ cache'[key] # NoEntry) =>
              /\ ~(/\ cache'[key].dataset_git_revision = cache[key].dataset_git_revision
                   /\ cache'[key].job_runner_version < cache[key].job_runner_version)
              /\ (cache[key].http_status = HTTP_OK /\ cache'[key].http_status = HTTP_OK) =>
                    \/ cache'[key].dataset_git_revision > cache[key].dataset_git_revision
                    \/ /\ cache'[key].dataset_git_revision = cache[key].dataset_git_revision
                       /\ cache'[key].job_runner_version >= cache[key].job_runner_version]_vars

\* C6: get_best_response returns the first kind of the list that has a
\* successful entry; if none has, the last kind of the list that has an
\* entry; if none has an entry, the synthetic not-found response. The kind
\* returned is always one of the list, and never an error while a kind of the
\* list has a successful entry.
C6_BestOfKinds ==
    out.called =>
        LET entry(i) == cache[Key(out.kinds[i], out.dataset, out.config, out.split)]
            ok == {i \in 1..Len(out.kinds) : entry(i) # NoEntry /\ entry(i).http_status = HTTP_OK}
            any == {i \in 1..Len(out.kinds) : entry(i) # NoEntry}
            first == CHOOSE i \in ok : \A k \in ok : i <= k
            final == CHOOSE i \in any : \A k \in any : i >= k
        IN  /\ \E i \in 1..Len(out.kinds) : out.best.kind = out.kinds[i]
            /\ IF ok # {}
               THEN /\ out.best.kind = out.kinds[first]
                    /\ out.best.response = entry(first)
                    /\ out.best.response.http_status = HTTP_OK
               ELSE IF any # {}
               THEN /\ out.best.kind = out.kinds[final]
                    /\ out.best.response = entry(final)
               ELSE out.best.response = NotFoundResponse

\* the first kind of the list has an error, the second a successful entry,
\* which is the one returned
C6_Witness ==
    /\ out.called
    /\ Len(out.kinds) = 2
    /\ cache[Key(out.kinds[1], out.dataset, out.config, out.split)] = ErrorEntry
    /\ cache[Key(out.kinds[2], out.dataset, out.config, out.split)] = OkEntry
    /\ out.best.kind = out.kinds[2]

\* C7: process stores an entry for the key of the job on every outcome,
\* success or error, except DatasetNotFoundError: then it returns False and
\* the cache is left as it was. (The store keeps the entry in place when
\* that one has the same revision and a newer version.)
C7_ProcessWritesUnlessNotFound ==
    [][\A w \in Workers :
          (pc[w] # "end" /\ pc'[w] = "end" /\ result'[w] # SKIPPED) =>
              LET key == JobKey(job'[w])
                  version == get_job_runner_version(w, key.kind)
              IN  IF err'[w] = "DatasetNotFoundError"
                  THEN cache' = cache /\ result'[w] = ERROR
                  ELSE /\ cache'[key] # NoEntry
                       /\ (result'[w] = SUCCESS) = (err'[w] = None)
                       /\ \/ /\ cache'[key].error_code = err'[w]
                             /\ (cache'[key].http_status = HTTP_OK) = (err'[w] = None)
                             /\ cache'[key].job_runner_version = version
                             /\ cache'[key].dataset_git_revision = rev'[w]
                          \/ /\ cache'[key] = cache[key]
                             /\ cache[key] # NoEntry
                             /\ cache[key].dataset_git_revision = rev'[w]
                             /\ cache[key].job_runner_version > version]_vars

\* process has ended on DatasetNotFoundError for a dataset the hub knows, and
\* the key of the job has no entry
C7_Witness ==
    \E w \in Workers :
        /\ pc[w] = "end"
        /\ err[w] = "DatasetNotFoundError"
        /\ result[w] = ERROR
        /\ hub[job[w].dataset] >= 1
        /\ cache[JobKey(job[w])] = NoEntry

\* C8: a job is skipped if and only if it is not forced and the entry of its
\* key exists, was created at the current revision of the dataset and with
\* the same job runner version, is not an error to retry, and is complete
\* (an error has no progress to complete); in every other case, the
\* revision being unobtainable included, it is processed.
C8_SkipIffUpToDate ==
    out.called =>
        (out.skipped =
            (/\ ~out.force
             /\ cache[SkipKey] # NoEntry
             /\ out.answer >= 1
             /\ cache[SkipKey].dataset_git_revision = out.answer
             /\ cache[SkipKey].job_runner_version =
                   get_job_runner_version(out.worker, SkipKey.kind)
             /\ cache[SkipKey].error_code \notin ERROR_CODES_TO_RETRY
             /\ \/ cache[SkipKey].progress = COMPLETE
                \/ cache[SkipKey].http_status # HTTP_OK))

\* the keys the fan-out of a job for key, whose entry holds content, is to
\* reach for the child step: the dataset, each config, each config and split
C9_ChildKeys(key, content, child) ==
    LET configs == IF specification[key.kind].input_type = "dataset"
                   THEN IF content.tag = "config_names" THEN content.names ELSE {}
                   ELSE {key.config}
    IN  CASE specification[child].input_type = "dataset" ->
                {Key(child, key.dataset, None, None)}
          [] specification[child].input_type = "config" ->
                {Key(child, key.dataset, config, None) : config \in configs}
          [] OTHER ->
                {Key(child, n[1], n[2], n[3]) :
                    n \in Operator_get_new_splits(key.dataset, key.config, content)}

\* C9: once the fan-out of a job that stored a successful entry has run, a
\* job exists for every child step and every child key the entry gives.
C9_FanOutComplete ==
    [][\A w \in Workers :
          (pc[w] = "end" /\ result[w] = SUCCESS /\ Finish(w)) =>
              \A child \in get_children(job[w].type) :
                  \A key \in C9_ChildKeys(JobKey(job[w]), cache[JobKey(job[w])].content, child) :
                      \E j \in 1..Len(jobs') : JobKey(jobs'[j]) = key]_vars

\* C10: with no cache entry and no job for a dataset the hub supports, a read
\* of an endpoint raises ResponseNotReady and leaves one dataset-config-names
\* job for the dataset, WAITING at NORMAL priority; the same read again
\* raises ResponseNotReady and adds no job.
C10_ColdRead ==
    [][\A kinds \in Endpoints, d \in Datasets :
          \A i \in InputsOf(specification[kinds[1]].input_type) :
              (/\ jobs' # jobs
               /\ pc' = pc
               /\ i[1] = d
               /\ ~has_some_cache(d)
               /\ \A j \in JobIds : jobs[j].dataset # d
               /\ is_supported(d)
               /\ ApiRead(kinds, d, i[2], i[3])) =>
                  /\ get_cache_entry_from_steps(jobs, kinds, d, i[2], i[3]).raises
                        = "ResponseNotReady"
                  /\ Cardinality({j \in 1..Len(jobs') :
                        jobs'[j].type = CN /\ jobs'[j].dataset = d}) = 1
                  /\ \A j \in 1..Len(jobs') :
                        (jobs'[j].type = CN /\ jobs'[j].dataset = d) =>
                            jobs'[j].status = WAITING /\ jobs'[j].priority = NORMAL
                  /\ get_cache_entry_from_steps(jobs, kinds, d, i[2], i[3])'.raises
                        = "ResponseNotReady"
                  /\ get_cache_entry_from_steps(jobs, kinds, d, i[2], i[3])'.jobs
                        = jobs']_vars

\* the read of a dataset with no entry has queued the config names at NORMAL
\* priority, not forced, and no entry is stored yet
C10_Witness ==
    /\ Len(jobs) >= 1
    /\ jobs[1].type = CN /\ jobs[1].status = WAITING
    /\ jobs[1].priority = NORMAL /\ ~jobs[1].force
    /\ ~has_some_cache("a/x")
    /\ \A j \in JobIds : jobs[j].type = CN => j = 1

\* the kinds of the list that have a successful entry for the input
C11_OkKinds(kinds, dataset, config, split) ==
    {n \in 1..Len(kinds) :
        cache[Key(kinds[n], dataset, config, split)].http_status = HTTP_OK}

\* C11: after the cold read of a dataset the hub supports, a GET on an
\* endpoint raises ResponseNotReady as long as none of the endpoint's kinds
\* has a successful entry, and from then on returns that entry (status 200,
\* X-Revision the revision of the entry). Stated where no computation has
\* failed (no error is cached for the dataset, no job has ended in ERROR) and
\* a job the read queued, at NORMAL priority, is on record.
C11_ReadBecomesReady ==
    \A kinds \in Endpoints, d \in Datasets :
        \A i \in InputsOf(specification[kinds[1]].input_type) :
            (/\ i[1] = d
             /\ is_supported(d)
             /\ \E j \in JobIds : jobs[j].dataset = d /\ jobs[j].priority = NORMAL
             /\ \A key \in Keys :
                   key.dataset = d => cache[key].http_status \in {0, HTTP_OK}
             /\ \A j \in JobIds : jobs[j].status # ERROR) =>
                LET got == get_cache_entry_from_steps(jobs, kinds, d, i[2], i[3])
                    ok == C11_OkKinds(kinds, d, i[2], i[3])
                IN  IF ok = {}
                    THEN got.raises = "ResponseNotReady"
                    ELSE /\ got.raises = None
                         /\ got.response.http_status = HTTP_OK
                         /\ \E n \in ok :
                               got.response = cache[Key(kinds[n], d, i[2], i[3])]

\* C12: the reclaimer returns a STARTED job that is silent to WAITING, with
\* no owner, so that any worker can lease it (while it has been taken back
\* fewer than MaxRetries times); the finish of the worker that lost the
\* lease is rejected and leaves the job as it is; the finish of the worker
\* that leased the job again gives it the final status its run returned.
C12_ZombieRecovery ==
    [][/\ \A j \in JobIds :
             (/\ reclaims' = reclaims + 1
              /\ jobs[j].status = STARTED
              /\ jobs'[j] # jobs[j]
              /\ jobs[j].retries < MaxRetries) =>
                 /\ jobs'[j].status = WAITING
                 /\ jobs'[j].owner = None
                 /\ is_job_in_process(jobs[j].type, jobs[j].dataset,
                                      jobs[j].config, jobs[j].split)'
       /\ \A w \in Workers :
             (pc[w] = "end" /\ pc'[w] = "idle" /\ job'[w] = NoJob
              /\ jobs[job[w].job_id].retries > 0 /\ jobs' # jobs) =>
                 IF HoldsLease(jobs, job[w].job_id, w)
                 THEN /\ jobs'[job[w].job_id].status = result[w]
                      /\ result[w] \in FinalStatuses
                 ELSE /\ finish_job(jobs, job[w].job_id, w, result[w]) = jobs
                      /\ jobs'[job[w].job_id] = jobs[job[w].job_id]]_vars

\* the job was taken back and leased again, its second run has ended with a
\* final status, and the worker that lost the lease is about to finish it
C12_Witness ==
    \E j \in JobIds, w \in Workers :
        /\ jobs[j].retries > 0
        /\ jobs[j].status \in FinalStatuses
        /\ jobs[j].owner # w
        /\ pc[w] = "end"
        /\ job[w].job_id = j

\* C13: a worker that lost the lease of its job does not overwrite the entry
\* committed by the worker that leased the job after it: when the worker
\* holding the lease has stored its result, the end of the compute of the
\* worker that lost the lease leaves the entry of the key as it is.
C13_CommitOrderIsLeaseOrder ==
    [][\A w, v \in Workers :
          (/\ w # v
           /\ pc[w] = "compute" /\ pc'[w] = "end"
           /\ job[v].job_id = job[w].job_id
           /\ HoldsLease(jobs, job[v].job_id, v)
           /\ pc[v] = "end" /\ result[v] = SUCCESS
           /\ cache[JobKey(job[v])].http_status = HTTP_OK
           /\ cache[JobKey(job[v])].dataset_git_revision = rev[v]
           /\ cache[JobKey(job[v])].job_runner_version
                 = get_job_runner_version(v, job[v].type)) =>
              cache'[JobKey(job[w])] = cache[JobKey(job[w])]]_vars

\* C14: a job is created WAITING; its status only changes from WAITING to
\* STARTED when a worker leases it, from STARTED to SUCCESS, ERROR or SKIPPED
\* when the worker that holds the lease finishes it (or to ERROR when the
\* reclaimer gives it up), from STARTED to WAITING when the reclaimer takes it
\* back; a job in a final status keeps it until the TTL deletes the
\* record; a key has a job in process exactly when a WAITING or STARTED job
\* exists for it.
C14_JobStatusTransitions ==
    [][jobs' # jobs =>
       /\ Len(jobs') >= Len(jobs)
       /\ \A j \in (Len(jobs) + 1)..Len(jobs') : jobs'[j].status = WAITING
       /\ \A j \in JobIds :
             jobs'[j].status # jobs[j].status =>
                CASE jobs[j].status = WAITING ->
                        /\ jobs'[j].status = STARTED
                        /\ \E w \in Workers :
                              /\ pc[w] = "idle"
                              /\ jobs'[j].owner = w
                              /\ job'[w].job_id = j
                  [] jobs[j].status = STARTED ->
                        \/ /\ jobs'[j].status \in FinalStatuses
                           /\ \/ /\ pc[jobs[j].owner] = "end"
                                 /\ job[jobs[j].owner].job_id = j
                                 /\ jobs'[j].status = result[jobs[j].owner]
                              \/ /\ reclaims' = reclaims + 1
                                 /\ jobs[j].retries >= MaxRetries
                                 /\ jobs'[j].status = ERROR
                        \/ /\ jobs'[j].status = WAITING
                           /\ reclaims' = reclaims + 1
                  [] OTHER ->
                        /\ jobs[j].status \in FinalStatuses
                        /\ jobs'[j] = Expired
       /\ \A key \in Keys :
             is_job_in_process(key.kind, key.dataset, key.config, key.split)' <=>
                \E j \in 1..Len(jobs') :
                    /\ JobKey(jobs'[j]) = key
                    /\ jobs'[j].status \in {WAITING, STARTED}]_vars

\* the reclaimer has taken a job back (WAITING again) while a worker ran
\* it and the worker has not ended its run yet: the key of the job is in
\* process; another job has finished and its key is not in process
C14_Witness ==
    \E j, k \in JobIds, w \in Workers :
        /\ jobs[j].status = WAITING
        /\ jobs[j].retries >= 1
        /\ job[w].job_id = j
        /\ pc[w] = "compute"
        /\ is_job_in_process(jobs[j].type, jobs[j].dataset, jobs[j].config,
                             jobs[j].split)
        /\ jobs[k].status \in FinalStatuses
        /\ ~is_job_in_process(jobs[k].type, jobs[k].dataset, jobs[k].config,
                              jobs[k].split)


\* the configs listed in the cached config names entry of the dataset
C15_Configs(dataset) ==
    LET entry == cache[Key(CN, dataset, None, None)]
    IN  IF entry # NoEntry /\ entry.content.tag = "config_names"
        THEN entry.content.names
        ELSE {}

\* the splits listed in the preferred split names entry of the config
C15_Splits(dataset, config) ==
    LET best == get_best_response(cache, <<SNI, SNS>>, dataset, config, None).response
    IN  IF best.content.tag = "split_names" THEN best.content.names ELSE {}

\* the keys the planner looks at
C15_PlanKeys(dataset) ==
    {key \in Keys :
        /\ key.dataset = dataset
        /\ CASE specification[key.kind].input_type = "dataset" -> TRUE
             [] specification[key.kind].input_type = "config" ->
                    key.config \in C15_Configs(dataset)
             [] OTHER ->
                    /\ key.config \in C15_Configs(dataset)
                    /\ key.split \in C15_Splits(dataset, key.config)}

\* C15: DatasetState.get_backfill_tasks returns exactly one task for each
\* (step, key) that should be refreshed and has no job in process, and no
\* other task; the keys are the dataset, the configs of the cached config
\* names entry and the splits of the preferred split names entry of each
\* config; the tasks of the dataset come first, then config by config the
\* tasks of the config followed by the tasks of its splits.
C15_BackfillTasksExact ==
    out.called /\ "tasks" \in DOMAIN out =>
        LET tasks == out.tasks
            n == Len(tasks)
        IN  /\ \A i, k \in 1..n : tasks[i] = tasks[k] => i = k
            /\ SeqRange(tasks) =
                   {key \in C15_PlanKeys(out.dataset) :
                       /\ should_be_refreshed(key.kind, key.dataset, key.config, key.split)
                       /\ ~is_job_in_process(key.kind, key.dataset, key.config, key.split)}
            /\ \A i, k \in 1..n :
                   i < k =>
                       /\ tasks[k].config = None => tasks[i].config = None
                       /\ tasks[i].config = tasks[k].config =>
                              /\ \A m \in i..k : tasks[m].config = tasks[i].config
                              /\ tasks[k].split = None => tasks[i].split = None

\* a plan with tasks of the dataset, of two configs and of a split, where a
\* key that should be refreshed is left out because its job is in process
C15_Witness ==
    /\ out.called /\ "tasks" \in DOMAIN out
    /\ \E i, k, m, l \in 1..Len(out.tasks) :
          /\ out.tasks[i].config = None
          /\ out.tasks[k].config = "c" /\ out.tasks[k].split = None
          /\ out.tasks[l].config = "c" /\ out.tasks[l].split # None
          /\ out.tasks[m].config = "d"
    /\ \E key \in C15_PlanKeys(out.dataset) :
          /\ should_be_refreshed(key.kind, key.dataset, key.config, key.split)
          /\ is_job_in_process(key.kind, key.dataset, key.config, key.split)

\* C16: once the planner has run, every key it looks at whose cache entry was
\* written at a revision other than the current revision of the dataset on
\* the hub should be refreshed, and is among the tasks unless a job for it
\* is in process.
C16_RevisionInvalidation ==
    out.called /\ "tasks" \in DOMAIN out =>
        \A key \in C15_PlanKeys(out.dataset) :
            cache[key] # NoEntry /\ cache[key].dataset_git_revision # hub[key.dataset] =>
                /\ should_be_refreshed(key.kind, key.dataset, key.config, key.split)
                /\ \/ is_job_in_process(key.kind, key.dataset, key.config, key.split)
                   \/ key \in SeqRange(out.tasks)

\* C17: once the planner has run, every key it looks at whose cache entry has
\* a job runner version lower than the version the graph declares for the
\* step should be refreshed, and is among the tasks unless a job for it is
\* in process.
C17_VersionInvalidation ==
    out.called /\ "tasks" \in DOMAIN out =>
        \A key \in C15_PlanKeys(out.dataset) :
            /\ cache[key] # NoEntry
            /\ cache[key].job_runner_version < specification[key.kind].job_runner_version
            => /\ should_be_refreshed(key.kind, key.dataset, key.config, key.split)
               /\ \/ is_job_in_process(key.kind, key.dataset, key.config, key.split)
                  \/ key \in SeqRange(out.tasks)

\* C18: once the planner has run, every key it looks at that holds an error
\* whose code is in the set of the codes to retry (ClientConnectionError by
\* default) is among the tasks unless a job for it is in process, and no
\* worker skips a job for it; a key that holds an error with another code,
\* written at the current revision and at the declared version of the step,
\* is not among the tasks; the planner and the worker retry the same codes.
C18_RetryPolicy ==
    out.called /\ "tasks" \in DOMAIN out =>
        /\ STATE_ERROR_CODES_TO_RETRY = ERROR_CODES_TO_RETRY
        /\ \A key \in C15_PlanKeys(out.dataset) :
              cache[key] # NoEntry /\ cache[key].http_status >= HTTP_BAD_REQUEST =>
                  IF cache[key].error_code \in ERROR_CODES_TO_RETRY
                  THEN /\ \/ is_job_in_process(key.kind, key.dataset, key.config, key.split)
                          \/ key \in SeqRange(out.tasks)
                       /\ \A w \in Workers, force \in BOOLEAN :
                              ~should_skip_job(force, cache[key],
                                               get_job_runner_version(w, key.kind),
                                               hub[key.dataset])
                  ELSE /\ cache[key].dataset_git_revision = hub[key.dataset]
                       /\ cache[key].job_runner_version =
                              specification[key.kind].job_runner_version
                       => key \notin SeqRange(out.tasks)

\* C19: every execution of JobRunner.process calls post_compute exactly
\* once, whatever the path it exits by: a result, an exception of the
\* parallel check, of the compute or of the size check, or a failure before
\* the compute starts.
C19_PostComputeOnce ==
    out.called /\ "post_compute" \in DOMAIN out => out.post_compute = 1

\* the entry process stores for the job of key when the parallel check raises
C20_AlreadyComputed(w, key, revision) ==
    Entry(ErrorContent, HTTP_INTERNAL_SERVER_ERROR, "ResponseAlreadyComputedError",
          get_job_runner_version(w, key.kind), revision, NoProgress)

\* C20: when process runs, with the revision of the hub, a job of the step
\* that declares a parallel step (split names from dataset info, parallel to
\* split names from streaming) and the entry of the parallel step for the
\* same dataset and config is successful, complete, at the revision of the
\* hub and at the declared version of the parallel step, compute is not
\* called and the error ResponseAlreadyComputedError is committed for the
\* job's own kind; in every other case compute is called.
C20_ParallelShortCircuit ==
    [][out'.called /\ "computed" \in DOMAIN out' /\ out'.answer >= 1 =>
          LET w == out'.worker
              key == out'.key
              existing == cache[Key(SNS, key.dataset, key.config, key.split)]
          IN  IF /\ key.kind = SNI
                 /\ existing # NoEntry
                 /\ existing.http_status = HTTP_OK
                 /\ existing.progress = COMPLETE
                 /\ existing.dataset_git_revision = hub[key.dataset]
                 /\ existing.job_runner_version = specification[SNS].job_runner_version
              THEN /\ ~out'.computed
                   /\ out'.error = "ResponseAlreadyComputedError"
                   /\ cache' = upsert_response(cache, key,
                                   C20_AlreadyComputed(w, key, hub[key.dataset]))
              ELSE out'.computed]_vars

\* a job of split names from dataset info that was cut short: compute was
\* not called and the entry of its key is the error
C20_Witness ==
    /\ out.called /\ "computed" \in DOMAIN out
    /\ out.key.kind = SNI
    /\ ~out.computed
    /\ out.answer >= 1
    /\ cache[out.key] # NoEntry
    /\ cache[out.key].error_code = "ResponseAlreadyComputedError"
    /\ cache[out.key].dataset_git_revision = out.answer

\* the entries process hands to the store for the job of key
C21_TooBig(w, key, revision) ==
    Entry(ErrorContent, HTTP_NOT_IMPLEMENTED, "TooBigContentError",
          get_job_runner_version(w, key.kind), revision, NoProgress)
C21_Result(w, key, revision) ==
    Entry(ComputedContent(key), HTTP_OK, None,
          get_job_runner_version(w, key.kind), revision, ComputedProgress(cache, key))

\* C21: when process runs a compute that returns a content (the revision is
\* known and the parallel check does not raise) and the serialized content is
\* larger than content_max_bytes, no successful entry is written: the error
\* TooBigContentError is stored for the key and process returns False; when
\* the content is within the cap the successful entry is stored and process
\* returns True.
C21_SizeGuard ==
    [][/\ out'.called /\ "size" \in DOMAIN out'
       /\ out'.computed /\ out'.outcome = "ok"
       => LET w == out'.worker
              key == out'.key
          IN  IF out'.size > content_max_bytes
              THEN /\ ~out'.returns
                   /\ out'.error = "TooBigContentError"
                   /\ cache' = upsert_response(cache, key, C21_TooBig(w, key, out'.answer))
              ELSE /\ out'.returns
                   /\ cache' = upsert_response(cache, key, C21_Result(w, key, out'.answer))]_vars

\* a content over the cap left the error in the cache, for a key that held a
\* result before
C21_Witness ==
    /\ out.called /\ "size" \in DOMAIN out
    /\ out.outcome = "ok" /\ out.size > content_max_bytes /\ out.computed
    /\ ~out.returns
    /\ cache[out.key] # NoEntry
    /\ cache[out.key].error_code = "TooBigContentError"
    /\ cache[out.key].http_status = HTTP_NOT_IMPLEMENTED

\* C22: every job a worker's fan-out adds to the queue at the end of a run
\* has the priority of the job that run was for, whatever the successor
\* step and the child key.
C22_FanOutPriority ==
    [][Len(jobs') > Len(jobs) =>
          \A w \in Workers :
              Finish(w) =>
                  \A j \in (Len(jobs) + 1)..Len(jobs') :
                      /\ jobs'[j].status = WAITING
                      /\ jobs'[j].type \in get_children(job[w].type)
                      /\ jobs'[j].priority = job[w].priority]_vars

\* the run of a job queued by an API read has just ended and its fan-out
\* added the last job of the queue, at the priority of the read
C22_Witness ==
    \E i, j \in JobIds :
        /\ i < j /\ j = Len(jobs)
        /\ jobs[i].status \in {SUCCESS, ERROR}
        /\ jobs[i].priority = NORMAL
        /\ jobs[j].status = WAITING
        /\ jobs[j].priority = NORMAL
        /\ jobs[j].type \in get_children(jobs[i].type)
        /\ cache[JobKey(jobs[i])] # NoEntry
        \* the child's key was computed by an earlier job, so the read that
        \* queued job i cannot have queued job j
        /\ j >= 3
        /\ cache[JobKey(jobs[j])] # NoEntry
        /\ \A k \in JobIds : k # j => ~InFlight(jobs[k])

\* the dataset has no cache entry and no job in process
C23_Cold(dataset) ==
    /\ ~has_some_cache(dataset)
    /\ \A j \in JobIds : jobs[j].dataset = dataset => ~InFlight(jobs[j])

C24_Entries(kinds, dataset, config, split) ==
    {cache[Key(kinds[n], dataset, config, split)] : n \in 1..Len(kinds)} \ {NoEntry}

\* C24: when the cache holds an entry, an error included, for the requested
\* key under one of the kinds of the endpoint, the read returns the entry
\* best finds as it is stored (content, http_status, error_code, revision),
\* enqueues no job and does not ask the hub whether the dataset is supported.
C24_CachedVerbatim ==
    \A kinds \in Endpoints :
        \A i \in InputsOf(specification[kinds[1]].input_type) :
            C24_Entries(kinds, i[1], i[2], i[3]) # {} =>
                LET got == get_cache_entry_from_steps(jobs, kinds, i[1], i[2], i[3])
                IN  /\ got.raises = None
                    /\ got.response \in C24_Entries(kinds, i[1], i[2], i[3])
                    /\ got.response =
                           get_best_response(cache, kinds, i[1], i[2], i[3]).response
                    /\ got.jobs = jobs
                    /\ ~got.support_checked

\* the only entry for the key is an error, the dataset has no job in
\* process, and the read returns the error
C24_Witness ==
    \E kinds \in Endpoints :
        \E i \in InputsOf(specification[kinds[1]].input_type) :
            LET got == get_cache_entry_from_steps(jobs, kinds, i[1], i[2], i[3])
            IN  /\ C24_Entries(kinds, i[1], i[2], i[3]) # {}
                /\ \A entry \in C24_Entries(kinds, i[1], i[2], i[3]) :
                       entry.http_status >= HTTP_BAD_REQUEST
                /\ \A j \in JobIds : ~InFlight(jobs[j])
                /\ got.raises = None
                /\ got.response.http_status >= HTTP_BAD_REQUEST
                /\ got.response.error_code # CACHED_RESPONSE_NOT_FOUND

\* step is one of the kinds or a step from which one of them is reached along
\* the edges of the graph
RECURSIVE C25_Reaches(_, _, _)
C25_Reaches(step, targets, fuel) ==
    \/ step \in targets
    \/ /\ fuel > 0
       /\ \E child \in get_children(step) : C25_Reaches(child, targets, fuel - 1)

\* a job of the dataset is pending for one of the kinds or an ancestor
C25_Pending(kinds, dataset) ==
    \E j \in JobIds :
        /\ jobs[j].dataset = dataset
        /\ jobs[j].status \in {WAITING, STARTED}
        /\ C25_Reaches(jobs[j].type, SeqRange(kinds), Len(StepOrder))

\* C25: when the dataset has cache entries but none for the requested key
\* under the kinds of the endpoint, the read raises ResponseNotReady if a job
\* of the dataset is pending for one of the requested steps or one of their
\* ancestors in the graph, and ResponseNotFound if none is; it enqueues no
\* job in either case.
C25_WarmMiss ==
    \A kinds \in Endpoints :
        \A i \in InputsOf(specification[kinds[1]].input_type) :
            has_some_cache(i[1]) /\ C24_Entries(kinds, i[1], i[2], i[3]) = {} =>
                LET got == get_cache_entry_from_steps(jobs, kinds, i[1], i[2], i[3])
                IN  /\ got.raises = IF C25_Pending(kinds, i[1])
                                    THEN "ResponseNotReady"
                                    ELSE "ResponseNotFound"
                    /\ got.jobs = jobs

\* the dataset has entries, none for the key read; the only job pending is of
\* an ancestor of the requested steps, and the read raises ResponseNotReady
C25_Witness ==
    \E kinds \in Endpoints :
        \E i \in InputsOf(specification[kinds[1]].input_type) :
            /\ has_some_cache(i[1])
            /\ C24_Entries(kinds, i[1], i[2], i[3]) = {}
            /\ C25_Pending(kinds, i[1])
            /\ \A j \in JobIds :
                   InFlight(jobs[j]) => jobs[j].type \notin SeqRange(kinds)
            /\ get_cache_entry_from_steps(jobs, kinds, i[1], i[2], i[3]).raises
                   = "ResponseNotReady"

\* C26: every response of the API that is an error or a not-ready signal
\* carries Cache-Control: no-store, and Cache-Control: max-age=N is only on
\* successful responses.
C26_NoStoreOnError ==
    out.called /\ "response" \in DOMAIN out =>
        /\ out.response.status_code # HTTP_OK =>
               out.response.cache_control[1] = "no-store"
        /\ out.response.cache_control[1] = "max-age" =>
               /\ out.response.status_code = HTTP_OK
               /\ out.response.error_code = None

\* C27: /rows and /filter accept a request only when offset >= 0 and
\* 1 <= length <= 100; for every other offset or length the response is an
\* InvalidParameter error and no rows are read.
C27_PageBounds ==
    out.called /\ "response" \in DOMAIN out =>
        IF out.offset >= 0 /\ 1 <= out.length /\ out.length <= 100
        THEN out.response.error_code # "InvalidParameter"
        ELSE /\ out.response.error_code = "InvalidParameter"
             /\ ~out.response.rows_read


\* C28: once the webhook has handled the 'deleted' event of a dataset, the
\* cache holds no entry of the dataset and the queue holds no WAITING or
\* STARTED job of the dataset.
C28_DeletedLeavesNothing ==
    [][hub' # hub =>
       \A dataset \in Datasets :
          DatasetDeleted(dataset) =>
             /\ \A key \in Keys : key.dataset = dataset => cache'[key] = NoEntry
             /\ \A j \in 1..Len(jobs') :
                   jobs'[j].dataset = dataset =>
                      jobs'[j].status \notin {WAITING, STARTED}]_vars


\* C29: the planner's pass and the handling of an 'update' event leave every
\* cache entry as it is; an entry changes only in a step of a worker's run.
C29_PlanningFrame ==
    [][cache' # cache =>
       /\ \A d \in Datasets : ~Backfill(d) /\ ~Update(d)
       /\ \E w \in Workers : StartJob(w) \/ Compute(w)]_vars


\* the hub reports revision 2 and the 'update' event has been handled on a
\* cache full at revision 1: every entry is the one of revision 1 with the
\* stale mark, and the job of the first step waits
C30_Handled(dataset) ==
    /\ hub[dataset] = 2
    /\ \A key \in HubKeys :
          key.dataset = dataset =>
             cache[key] = [stale |-> TRUE] @@ FullEntry(key, 1)
    /\ \E j \in JobIds :
          /\ JobKey(jobs[j]) = Key(CN, dataset, None, None)
          /\ jobs[j].status = WAITING

\* every entry of the dataset has the revision
C30_AllAt(dataset, revision) ==
    \A key \in Keys :
        key.dataset = dataset /\ cache[key] # NoEntry =>
           cache[key].dataset_git_revision = revision

\* C30: when the 'update' event of a dataset is handled while its cache is
\* full at revision 1 and the hub reports revision 2, a dataset-config-names
\* job waits at NORMAL priority after the handler, and, the workers being
\* scheduled fairly, eventually every cache entry of the dataset has
\* revision 2.
C30_WebhookRefresh ==
    /\ [][\A d \in Datasets :
             /\ Update(d) /\ hub[d] = 2 /\ C30_AllAt(d, 1)
             /\ \A key \in HubKeys : cache[key] # NoEntry
             /\ jobs' # jobs
             => \E j \in 1..Len(jobs') :
                    /\ JobKey(jobs'[j]) = Key(CN, d, None, None)
                    /\ jobs'[j].status = WAITING
                    /\ jobs'[j].priority = NORMAL]_vars
    /\ \A d \in Datasets : C30_Handled(d) ~> C30_AllAt(d, 2)


\* C31: the priority of a job in flight never decreases: in every step that
\* changes the queue (the planner's pass at LOW, the backfill of an API read
\* at NORMAL, the fan-out of a worker), a job that is in flight before and
\* after the step has a priority at least as high as before.
C31_PriorityNeverLowered ==
    [][jobs' # jobs =>
       \A j \in JobIds :
          InFlight(jobs[j]) /\ InFlight(jobs'[j]) =>
             PriorityRank(jobs'[j].priority) >= PriorityRank(jobs[j].priority)]_vars

\* the fan-out of a job of LOW priority has upserted dataset-split-names
\* while a NORMAL job was in flight for it: the job is still NORMAL
C31_Witness ==
    \E j, k \in JobIds :
        /\ jobs[j].type = DSN /\ InFlight(jobs[j]) /\ jobs[j].priority = NORMAL
        /\ jobs[k].priority = LOW /\ jobs[k].status \in FinalStatuses
        /\ jobs[k].dataset = jobs[j].dataset
        /\ DSN \in get_children(jobs[k].type)
        /\ cache[JobKey(jobs[k])] # NoEntry
        /\ \A w \in Workers : job[w].job_id # k


\* the configs DatasetState lists, and the splits a ConfigState lists
C32_ConfigNames(dataset) ==
    IF fetch_config_names(dataset).raised THEN <<>>
    ELSE fetch_config_names(dataset).names
C32_SplitNames(dataset, config) ==
    IF fetch_split_names(dataset, config).raised THEN <<>>
    ELSE fetch_split_names(dataset, config).names

C33_Applicable(key) ==
    /\ key.config = None \/ key.config \in SeqRange(C32_ConfigNames(key.dataset))
    /\ key.split = None
          \/ key.split \in SeqRange(C32_SplitNames(key.dataset, key.config))

\* C33: the planner emits a task for every applicable key of a step whose
\* own entry should be refreshed and that has no job in process, whatever
\* the entries of the previous steps; and a job that computes while the
\* entry of its previous step is missing or not OK leaves an error entry in
\* the cache for its own key (the job being run by a worker of the current
\* release, whose writes the cache does not refuse).
C33_TriggerGating ==
    out.called =>
       IF "tasks" \in DOMAIN out
       THEN \A key \in Keys :
               /\ key.dataset = out.dataset
               /\ C33_Applicable(key)
               /\ should_be_refreshed(key.kind, key.dataset, key.config, key.split)
               /\ ~is_job_in_process(key.kind, key.dataset, key.config, key.split)
               => key \in SeqRange(out.tasks)
       ELSE /\ out.computed
            /\ out.worker \notin OldWorkers
            /\ out.previous = NoEntry \/ out.previous.http_status # HTTP_OK
            => /\ cache[out.key] # NoEntry
               /\ cache[out.key].http_status # HTTP_OK
               /\ cache[out.key].error_code = out.error


\* the entry process writes on success for the call recorded in o
C34_Written(o) ==
    Entry(ComputedContent(o.key), HTTP_OK, None,
          get_job_runner_version(o.worker, o.key.kind), o.answer,
          ComputedProgress(cache, o.key))

\* C34: an entry that process writes with http_status OK has no error code,
\* the version of the runner and the revision the hub gave in this run,
\* which is a revision; and process returns True exactly when it wrote such
\* an entry (for a worker of the current release, whose writes the cache
\* does not refuse).
C34_OkEntryWritten ==
    [][out'.called =>
       LET o == out'
           before == cache[o.key]
           after == cache'[o.key]
       IN  /\ after # before /\ after.http_status = HTTP_OK =>
                /\ after.error_code = None
                /\ after.job_runner_version
                      = get_job_runner_version(o.worker, o.key.kind)
                /\ after.dataset_git_revision = o.answer
                /\ o.answer >= 1
                /\ o.returns
           /\ o.returns =>
                /\ o.answer >= 1
                /\ o.worker \notin OldWorkers => after = C34_Written(o)
           /\ ~o.returns => after = before \/ after.http_status # HTTP_OK]_vars

\* process has returned True and the entry of the key is the one it wrote
C34_Witness ==
    /\ out.called
    /\ out.returns
    /\ out.worker \notin OldWorkers
    /\ cache[out.key].http_status = HTTP_OK
    /\ cache[out.key].dataset_git_revision = out.answer
    /\ cache[out.key].error_code = None


\* C35: allocate sets the endpoint of the library to the endpoint of the
\* resource and disables the download counts; release puts the endpoint, the
\* download counts flag and the verbosity back to the values they had just
\* before the allocate of the same resource, which no step on another
\* resource changes in between; for one resource and for resources
\* allocated and released in any order.
C35_LibrariesRoundTrip ==
    [][\A r \in Resources :
          /\ Allocate(r) =>
                /\ out'.settings.HF_ENDPOINT = hf_endpoint(r)
                /\ ~out'.settings.HF_UPDATE_DOWNLOAD_COUNTS
                /\ out'.resources[r].previous_hf_endpoint = out.settings.HF_ENDPOINT
                /\ out'.resources[r].previous_hf_update_download_counts
                      = out.settings.HF_UPDATE_DOWNLOAD_COUNTS
                /\ out'.resources[r].previous_verbosity = out.settings.verbosity
          /\ Release(r) =>
                /\ out'.settings.HF_ENDPOINT = out.resources[r].previous_hf_endpoint
                /\ out'.settings.HF_UPDATE_DOWNLOAD_COUNTS
                      = out.resources[r].previous_hf_update_download_counts
                /\ out'.settings.verbosity = out.resources[r].previous_verbosity
          /\ ~Allocate(r) /\ ~Release(r) =>
                out'.resources[r] = out.resources[r]]_vars

\* two resources were allocated one after the other and released in the
\* same order: the second release has put back the endpoint of the first
C35_Witness ==
    /\ \A r \in Resources : out.resources[r].released
    /\ out.resources["r1"].previous_hf_endpoint = "https://huggingface.co"
    /\ out.resources["r2"].previous_hf_endpoint = hf_endpoint("r1")
    /\ out.settings.HF_ENDPOINT = hf_endpoint("r1")


\* the rows offset .. min(offset + length, total) - 1, in order
C36_Expected(offset, length, total) ==
    [k \in 1..(Min2(offset + length, total) - offset) |-> offset + k - 1]

\* C36: for every 0 <= offset < total and length >= 1, query returns exactly
\* the rows offset .. min(offset + length, total) - 1, in order, whatever
\* the sizes of the row groups, also when the range spans several row
\* groups.
C36_QueryReturnsRange ==
    out.called =>
       out.rows = C36_Expected(out.offset, out.length,
                      out.row_group_offsets[Len(out.row_group_offsets)])


\* the JSON size of the rows of a response: the row items and the commas
\* between them
C37_Size(row_items) ==
    rows_size(row_items)
        + (IF row_items = <<>> THEN 0 ELSE COMMA_SIZE * (Len(row_items) - 1))

\* the rows, as given, do not fit in rows_max_bytes
C37_DoesNotFit(rows, rows_max_bytes) ==
    C37_Size([i \in 1..Len(rows) |-> to_row_item(i - 1, rows[i])]) > rows_max_bytes

\* the returned items are the rows 0, 1, 2, ... of the input
C37_Prefix(o) ==
    /\ Len(o.row_items) <= Len(o.rows)
    /\ \A i \in 1..Len(o.row_items) : o.row_items[i].row_idx = i - 1

\* at least min(rows_min_number, number of rows) items are returned
C37_MinNumber(o) ==
    Len(o.row_items) >= (IF o.rows_min_number < Len(o.rows)
                         THEN o.rows_min_number ELSE Len(o.rows))

\* C37: create_truncated_row_items returns items whose row_idx are
\* 0, 1, 2, ... in input order, at least min(rows_min_number, number of
\* rows) of them, of a total JSON size that does not exceed rows_max_bytes,
\* and when the input does not fit the result is non-empty and marked
\* truncated.
C37_TruncatedRowItems ==
    out.called =>
       /\ C37_Prefix(out)
       /\ C37_MinNumber(out)
       /\ C37_Size(out.row_items) <= out.rows_max_bytes
       /\ C37_DoesNotFit(out.rows, out.rows_max_bytes) =>
             /\ out.row_items # <<>>
             /\ \/ Len(out.row_items) < Len(out.rows)
                \/ \E i \in 1..Len(out.row_items) :
                      out.row_items[i].truncated_cells # <<>>


\* the job's own (dataset, config, split), cut to what a child of the given
\* input type takes; nothing when the child needs more than the job has
C38_OwnScope(key, child_input_type) ==
    LET input_type == specification[key.kind].input_type
    IN  CASE child_input_type = "dataset" -> {<<key.dataset, None, None>>}
          [] child_input_type = "config" ->
                IF input_type \in {"config", "split"}
                THEN {<<key.dataset, key.config, None>>}
                ELSE {}
          [] OTHER ->
                IF input_type = "split"
                THEN {<<key.dataset, key.config, key.split>>}
                ELSE {}

\* the keys of the children of the job's own scope
C38_ChildKeys(key) ==
    {Key(child, n[1], n[2], n[3]) :
        <<child, n>> \in UNION {{<<child, n>> :
            n \in C38_OwnScope(key, specification[child].input_type)} :
                child \in get_children(key.kind)}}

C39_UpToDate(key) ==
    /\ cache[key] # NoEntry
    /\ cache[key].http_status = HTTP_OK
    /\ cache[key].job_runner_version = specification[key.kind].job_runner_version
    /\ cache[key].dataset_git_revision = hub[key.dataset]
    /\ ~(cache[key].progress # NoProgress /\ cache[key].progress < COMPLETE)

\* C39: every job the planner's backfill creates has force = True, every
\* job the fan-out creates has the force flag of the finishing job, and a
\* job with the force flag is never skipped: its run invokes process, also
\* when the cache entry of its key is up to date.
C39_ForcedJobsProcess ==
    [][/\ \A d \in Datasets :
             (jobs' # jobs /\ pc' = pc /\ Backfill(d)) =>
                /\ Len(jobs') > Len(jobs)
                /\ \A j \in (Len(jobs) + 1)..Len(jobs') : jobs'[j].force
       /\ \A w \in Workers :
             (pc[w] = "end" /\ Finish(w)) =>
                \A j \in (Len(jobs) + 1)..Len(jobs') : jobs'[j].force = job[w].force
       /\ \A w \in Workers :
             (pc[w] = "idle" /\ pc'[w] # "idle" /\ job'[w].force) =>
                /\ ~should_skip_job(TRUE, cache[JobKey(job'[w])],
                                    get_job_runner_version(w, job'[w].type),
                                    hub[job'[w].dataset])
                /\ result'[w] # SKIPPED
                /\ \/ pc'[w] = "compute"
                   \/ result'[w] = ERROR
       /\ \A w \in Workers :
             (pc[w] # "idle" /\ job[w].force) => result'[w] # SKIPPED]_vars

\* a worker computes a job with the force flag although the entry of its
\* key is up to date
C39_Witness ==
    \E w \in Workers :
        /\ pc[w] = "compute"
        /\ job[w].force
        /\ w \notin OldWorkers
        /\ C39_UpToDate(JobKey(job[w]))


\* the planner has no task for the dataset and no job of it is in flight
C40_Quiescent(dataset) ==
    /\ DatasetState_get_backfill_tasks(dataset) = <<>>
    /\ \A j \in JobIds : jobs[j].dataset = dataset => ~InFlight(jobs[j])

\* the planner has a task for the key
C40_Planned(key) ==
    \E i \in 1..Len(DatasetState_get_backfill_tasks(key.dataset)) :
        LET task == DatasetState_get_backfill_tasks(key.dataset)[i]
        IN  Key(task.kind, task.dataset, task.config, task.split) = key

\* C40: with a fixed hub revision, fixed step versions and no retryable
\* error, a job that finishes never leaves its key in a state where the
\* next planner pass enqueues the same job again, and with planner passes
\* and fair workers every dataset reaches a state where get_backfill_tasks
\* returns no task and no job is WAITING or STARTED.
C40_PlannerConvergence ==
    /\ [][\A w \in SteadyWorkers :
             (pc[w] = "end" /\ Finish(w)) =>
                \A key \in Keys : key = JobKey(job[w]) => ~C40_Planned(key)']_vars
    /\ \A d \in Datasets : <>C40_Quiescent(d)

====
